---- MODULE Spec2Model ----
(***************************************************************************)
(* Behavioural model of the trailbook communication service:               *)
(*   - the ConnectionRequest store and its send/accept/reject handlers,    *)
(*   - the Message log (sendMessage, getMessages with cursor pagination),  *)
(*   - the RabbitMQ task consumers with retry / dead-letter handling,      *)
(*   - the TrailConnection store and the eligibility engine.               *)
(* Every handler is split at its awaited storage calls: one action per     *)
(* storage round trip, so that concurrent handlers interleave exactly      *)
(* where the event loop lets them.                                         *)
(***************************************************************************)
EXTENDS Integers, Sequences, FiniteSets, TLC

(***************************************************************************)
(* Universe and bounds                                                     *)
(***************************************************************************)

\* User ids are ObjectId hex strings; a string is modelled by the sequence
\* of its hex digits (0..15), so that String(id) comparisons are computed
\* digit by digit as JavaScript compares strings.
U1 == <<0, 10>>
U2 == <<1, 2>>
U3 == <<0, 3>>
Users == {U1, U2, U3}

\* Concurrent request handlers (HTTP requests in flight on the event loop).
Procs == {"p1", "p2"}

\* Largest number of ConnectionRequest documents the model stores.
MaxRequests == 2

\* Largest number of Message documents the model stores.
MaxMessages == 2

\* Number of messages after which the gateway clients of the queue
\* specification stop sending.
MaxSends == 1

\* Largest number of TrailConnection documents the model stores.
MaxConnections == 3

\* Last instant of the wall clock (Date.now()) the model reaches.
MaxClock == 2

Nil == "nil"

VARIABLES
  requests,   \* ConnectionRequest collection: sequence of documents, _id = index
  messages,   \* Message collection: sequence of documents, _id = index
  now,        \* the wall clock read by new Date() and by the timestamps plugin
  pager,      \* a client that pages through a conversation (GET /messages/with)
  emitted,    \* socket.io events emitted by the gateway
  queues,     \* RabbitMQ: the ready messages of each origin queue, in order
  dlqs,       \* RabbitMQ: the messages of the .dlq queue paired with each queue
  consumer,   \* per origin queue: the delivery its consumer is processing
  timers,     \* pending setTimeout callbacks (delayed republishes)
  tally,      \* history: deliveries and processing failures of each task
  bucket,     \* whether AWS_S3_BUCKET is configured
  favorites,         \* AlbumFavorite collection: <<userId, albumId>> edges
  mediaReflections,  \* MediaReflection collection: <<userId, mediaId>> edges
  deletedAlbums,     \* the albums with isDeleted = true
  deletedMedia,      \* the media with isDeleted = true
  connections,       \* TrailConnection collection: sequence of documents
  sockets,           \* the gateway's client sockets, by socket id
  connectedUsers,    \* ChatGateway.connectedUsers: userId -> socketId
  pc,         \* per handler: the frame of the call in flight (or idle)
  resp        \* outcome of the call that completed last

\* The broker and the consumers.
queueVars == <<queues, dlqs, consumer, timers, tally, bucket>>

\* The favorites / reflections graph, read by the eligibility engine.
graphVars == <<favorites, mediaReflections, deletedAlbums, deletedMedia>>

\* The sockets of the gateway and its registry.
gatewayVars == <<sockets, connectedUsers>>

vars == <<requests, messages, now, pager, emitted, queueVars, graphVars,
          connections, gatewayVars, pc, resp>>

\* What the connection-request handlers never touch.
notRequestVars ==
  <<messages, now, pager, emitted, queueVars, graphVars, connections, gatewayVars>>

\* What the message handlers never touch (the paging client is advanced, or
\* left alone, by the step that runs the handler; so are the queues and the
\* emitted events by the steps of sendMessage).
notMessageVars ==
  <<requests, bucket, dlqs, consumer, timers, tally, graphVars, connections,
    gatewayVars>>

\* What only a handler step changes.
notClockVars ==
  <<requests, messages, pager, emitted, queueVars, graphVars, connections,
    gatewayVars, pc, resp>>

\* What the consumers never touch.
notConsumerVars ==
  <<requests, now, pager, emitted, graphVars, connections, gatewayVars, pc, resp>>

\* What the trail-connection handlers never touch.
notTrailVars == <<requests, messages, now, pager, emitted, queueVars, gatewayVars>>

(***************************************************************************)
(* Handler frames                                                          *)
(***************************************************************************)
\* Locals of a message handler: the attachment flag, the pagination
\* arguments, the time of the call, the createdAt of the cursor message, the
\* page read, the ids to mark read and the time the page was read.
NoLoc == [file |-> FALSE, cursor |-> 0, limit |-> 0, dir |-> Nil, t0 |-> 0,
          cut |-> 0, page |-> <<>>, hasMore |-> FALSE, unread |-> {}, t1 |-> 0]

\* The result of an eligibility check (none yet).
NoEligibility ==
  [eligible |-> FALSE, mutualAlbums |-> {}, reflectionCount |-> 0, reasons |-> <<>>]

\* The body of a getMessages response.
NoRes == [messages |-> <<>>, nextCursor |-> 0, hasMore |-> FALSE]

IdleFrame == [at |-> "idle", op |-> Nil, a |-> Nil, b |-> Nil, rid |-> 0, loc |-> NoLoc,
              eligibility |-> NoEligibility]

NoResp == [op |-> Nil, a |-> Nil, b |-> Nil, rid |-> 0, ok |-> FALSE, err |-> Nil,
           res |-> NoRes, eligibility |-> NoEligibility, message |-> Nil]

Frame(at, op, a, b, rid) ==
  [at |-> at, op |-> op, a |-> a, b |-> b, rid |-> rid, loc |-> NoLoc,
   eligibility |-> NoEligibility]

\* The response of the call whose frame is f.
Ok(f) == [op |-> f.op, a |-> f.a, b |-> f.b, rid |-> f.rid, ok |-> TRUE, err |-> Nil,
          res |-> NoRes, eligibility |-> f.eligibility, message |-> Nil]

Fail(f, err) == [op |-> f.op, a |-> f.a, b |-> f.b, rid |-> f.rid, ok |-> FALSE,
                 err |-> err, res |-> NoRes, eligibility |-> f.eligibility,
                 message |-> Nil]

\* A successful response carrying a message ('Connection created', ...).
OkMessage(f, message) == [Ok(f) EXCEPT !.message = message]

\* A request handler finishes: respond and return to the event loop.
Return(p, r) ==
  /\ pc' = [pc EXCEPT ![p] = IdleFrame]
  /\ resp' = r

\* A request handler suspends at its next await.
Goto(p, f) ==
  /\ pc' = [pc EXCEPT ![p] = f]
  /\ resp' = NoResp

(***************************************************************************)
(* ConnectionRequest store                                                 *)
(***************************************************************************)
ReqIds == 1..MaxRequests

\* (a lookup that matches the pair in the given direction only)
FindPairOneWay(store, a, b, status) ==
  {i \in DOMAIN store :
     /\ store[i].status = status
     /\ store[i].requesterId = a
     /\ store[i].recipientId = b}

\* findOne({$or: [{requesterId: a, recipientId: b}, {requesterId: b,
\* recipientId: a}], status}): the ids of the matching documents.
FindPair(store, a, b, status) ==
  {i \in DOMAIN store :
     /\ store[i].status = status
     /\ \/ (store[i].requesterId = a /\ store[i].recipientId = b)
        \/ (store[i].requesterId = b /\ store[i].recipientId = a)}

\* (a unique index on every document, whatever its status)
PendingIndexDupAnyStatus(store, doc) ==
  \E i \in DOMAIN store :
    /\ store[i].requesterId = doc.requesterId
    /\ store[i].recipientId = doc.recipientId

\* The partial unique index {requesterId, recipientId, status} on the
\* documents with status = pending: an insert of doc is refused when a
\* document with the same key is in the index.
PendingIndexDup(store, doc) ==
  /\ doc.status = "pending"
  /\ \E i \in DOMAIN store :
       /\ store[i].status = "pending"
       /\ store[i].requesterId = doc.requesterId
       /\ store[i].recipientId = doc.recipientId

\* Handlers that will still insert a ConnectionRequest.
InsertsInFlight == Cardinality({p \in Procs : pc[p].op = "sendRequest"})

\* sendRequest, up to and including its first await: id checks, then the
\* lookup of an accepted request of the pair.
SendRequestCall(p, requesterId, recipientId) ==
  /\ pc[p].at = "idle"
  /\ Len(requests) + InsertsInFlight < MaxRequests
  /\ LET f == Frame("sr_findPending", "sendRequest", requesterId, recipientId, 0) IN
     IF requesterId = recipientId
       THEN Return(p, Fail(f, "BadRequest: Cannot send request to yourself"))
       ELSE IF FindPair(requests, requesterId, recipientId, "accepted") # {}
         THEN Return(p, Fail(f, "BadRequest: Already connected"))
         ELSE Goto(p, f)
  /\ UNCHANGED requests
  /\ UNCHANGED notRequestVars

\* second await: the lookup of a pending request of the pair.
SendRequestFindPending(p) ==
  /\ pc[p].at = "sr_findPending"
  /\ LET f == pc[p]
         found == FindPair(requests, f.a, f.b, "pending") IN
     IF found # {}
       THEN IF \E i \in found : requests[i].requesterId = f.a
              THEN Return(p, Fail(f, "BadRequest: Request already sent"))
              ELSE Return(p, Fail(f, "BadRequest: You have a pending request from this user"))
       ELSE Goto(p, [f EXCEPT !.at = "sr_create"])
  /\ UNCHANGED requests
  /\ UNCHANGED notRequestVars

\* third await: the insert, guarded by the unique index; a duplicate-key
\* error is rethrown as a BadRequest.
SendRequestCreate(p) ==
  /\ pc[p].at = "sr_create"
  /\ LET f == pc[p]
         doc == [requesterId |-> f.a, recipientId |-> f.b, status |-> "pending"] IN
     IF PendingIndexDup(requests, doc)
       THEN /\ Return(p, Fail(f, "BadRequest: Failed to send request"))
            /\ UNCHANGED requests
       ELSE /\ requests' = Append(requests, doc)
            /\ Return(p, Ok([f EXCEPT !.rid = Len(requests) + 1]))
  /\ UNCHANGED notRequestVars

\* (the status of the loaded document is examined before its recipient)
RespondCallStatusFirst(p, op, userId, requestId) ==
  /\ pc[p].at = "idle"
  /\ LET f == Frame("rs_save", op, userId, Nil, requestId) IN
     IF requestId \notin DOMAIN requests
       THEN Return(p, Fail(f, "NotFound: Request not found"))
       ELSE IF requests[requestId].status # "pending"
         THEN Return(p, Fail(f, "BadRequest: Request is already " \o requests[requestId].status))
         ELSE IF requests[requestId].recipientId # userId
           THEN Return(p, Fail(f, "BadRequest: You are not the recipient of this request"))
           ELSE Goto(p, f)
  /\ UNCHANGED requests
  /\ UNCHANGED notRequestVars

\* acceptRequest / rejectRequest up to the await of save(): findById, then
\* the checks on the loaded document.
RespondCall(p, op, userId, requestId) ==
  /\ pc[p].at = "idle"
  /\ LET f == Frame("rs_save", op, userId, Nil, requestId) IN
     IF requestId \notin DOMAIN requests
       THEN Return(p, Fail(f, "NotFound: Request not found"))
       ELSE IF requests[requestId].recipientId # userId
         THEN Return(p, Fail(f, "BadRequest: You are not the recipient of this request"))
         ELSE IF requests[requestId].status # "pending"
           THEN Return(p, Fail(f, "BadRequest: Request is already " \o requests[requestId].status))
           ELSE Goto(p, f)
  /\ UNCHANGED requests
  /\ UNCHANGED notRequestVars

\* save() of the loaded document: an update of the modified path (status)
\* of the document with that _id, whatever its stored status is by now.
RespondSave(p) ==
  /\ pc[p].at = "rs_save"
  /\ LET f == pc[p]
         status == IF f.op = "acceptRequest" THEN "accepted" ELSE "rejected" IN
     /\ requests' = [requests EXCEPT ![f.rid].status = status]
     /\ Return(p, Ok(f))
  /\ UNCHANGED notRequestVars

AcceptRequestCall(p, userId, requestId) == RespondCall(p, "acceptRequest", userId, requestId)

RejectRequestCall(p, userId, requestId) == RespondCall(p, "rejectRequest", userId, requestId)

\* One step of a connection-request handler run by p: requests are sent by
\* the users of Senders, addressed, accepted and rejected by those of US.
RequestStep(p, Senders, US) ==
  \/ \E a \in Senders, b \in US : SendRequestCall(p, a, b)
  \/ SendRequestFindPending(p)
  \/ SendRequestCreate(p)
  \/ \E u \in US, i \in ReqIds : AcceptRequestCall(p, u, i)
  \/ \E u \in US, i \in ReqIds : RejectRequestCall(p, u, i)
  \/ RespondSave(p)

(***************************************************************************)
(* Message log                                                             *)
(***************************************************************************)
MsgIds == 1..MaxMessages

\* limit must be between 1 and 100.
MinLimit == 1

MaxLimit == 100

\* The <<cursor, limit, direction>> arguments the model passes to
\* getMessages: page sizes 1 and 2 with no cursor (0) or any message id as
\* cursor, and the two limits just out of range.
ReadArgs ==
  (({0} \cup MsgIds) \X {1, 2} \X {"before", "after"})
    \cup {<<0, MinLimit - 1, "before">>, <<0, MaxLimit + 1, "before">>}

Min(x, y) == IF x <= y THEN x ELSE y

Reverse(s) == [i \in 1..Len(s) |-> s[Len(s) + 1 - i]]

Range(s) == {s[i] : i \in DOMAIN s}

\* (a lookup that sees only the requests sent by the first user)
AreConnectedOneWay(userId1, userId2) ==
  \E i \in DOMAIN requests :
    /\ requests[i].status = "accepted"
    /\ requests[i].requesterId = userId1 /\ requests[i].recipientId = userId2

\* areConnected: an accepted request of the pair, in either direction.
AreConnected(userId1, userId2) ==
  \E i \in DOMAIN requests :
    /\ requests[i].status = "accepted"
    /\ \/ (requests[i].requesterId = userId1 /\ requests[i].recipientId = userId2)
       \/ (requests[i].requesterId = userId2 /\ requests[i].recipientId = userId1)

\* Handlers that will still insert a Message.
CreatesInFlight == Cardinality({p \in Procs : pc[p].at = "sm_create"})

\* client.emit('error', {message}) to the session of userId.
ErrorEvent(userId) == [event |-> "error", to |-> userId, messageId |-> 0]

\* A failed sendMessage: the HTTP route (op = sendMessage) answers with the
\* error, the gateway handler (op = send_message) emits it to the client.
SendMessageFail(p, f, err) ==
  /\ Return(p, Fail(f, err))
  /\ emitted' = IF f.op = "send_message" THEN emitted \cup {ErrorEvent(f.a)}
                                          ELSE emitted

\* MessageService.sendMessage up to and including its first await: id
\* checks, areConnected; called by op, the HTTP route or the gateway.
SendMessage(p, op, senderId, receiverId, file) ==
  /\ pc[p].at = "idle"
  /\ Len(messages) + CreatesInFlight < MaxMessages
  /\ LET f == [Frame("sm_create", op, senderId, receiverId, 0)
                 EXCEPT !.loc.file = file] IN
     IF senderId = receiverId
       THEN SendMessageFail(p, f, "BadRequest: Cannot send message to yourself")
       ELSE IF ~AreConnected(senderId, receiverId)
         THEN SendMessageFail(p, f, "BadRequest: Users must be connected to send messages")
         ELSE Goto(p, f) /\ UNCHANGED emitted
  /\ UNCHANGED <<messages, now, queues>>
  /\ UNCHANGED notMessageVars

\* POST /messages/send: the route passes no attachment.
SendMessageCall(p, senderId, receiverId) ==
  SendMessage(p, "sendMessage", senderId, receiverId, FALSE)

\* The gateway's send_message event of an authenticated session.
HandleSendMessage(p, senderId, receiverId, file) ==
  SendMessage(p, "send_message", senderId, receiverId, file)

\* The document messageModel.create stores at time t.
NewMessage(senderId, receiverId, file, t) ==
  [senderId |-> senderId, receiverId |-> receiverId, content |-> "text",
   hasFile |-> file, fileKey |-> IF file THEN "key" ELSE Nil, fileUrl |-> Nil,
   isFileUploaded |-> FALSE, isRead |-> FALSE, readAt |-> 0, createdAt |-> t]

\* second await: the insert of the Message, stamped with the current time.
SendMessageCreate(p) ==
  /\ pc[p].at = "sm_create"
  /\ LET f == [pc[p] EXCEPT !.rid = Len(messages) + 1] IN
     /\ messages' = Append(messages, NewMessage(f.a, f.b, f.loc.file, now))
     /\ IF f.op = "send_message" THEN Goto(p, [f EXCEPT !.at = "gw_publish"])
                                  ELSE Return(p, Ok(f))
  /\ UNCHANGED <<now, queues, emitted>>
  /\ UNCHANGED notMessageVars

\* The origin queues, and the payloads published for the message of frame f.
FileQueue == "chat.file.upload"

NotificationQueue == "chat.notification.send"

Queues == {FileQueue, NotificationQueue}

FileUploadMessage(f) ==
  [messageId |-> f.rid, fileKey |-> "key", senderId |-> f.a, receiverId |-> f.b]

NotificationMessage(f) ==
  [messageId |-> f.rid, content |-> "text", hasFile |-> f.loc.file,
   senderId |-> f.a, receiverId |-> f.b]

\* channel.sendToQueue(q, content, {persistent: true}): the message is
\* appended to the queue, with no x-retry-count header.
SendToQueue(qs, q, content) ==
  [qs EXCEPT ![q] = Append(@, [content |-> content, headers |-> <<>>])]

\* The outcomes of a publish* call of RabbitMQService: sendToQueue returned
\* true, returned false (write buffer full, the message is still written)
\* or threw (channel closed).
PublishOutcomes == {"true", "false", "throw"}

\* (a file-upload task is published for every message, attachment or not)
PublishedAlways(f, fileOut, noteOut) ==
  LET q1 == IF fileOut # "throw"
              THEN SendToQueue(queues, FileQueue, FileUploadMessage(f))
              ELSE queues
  IN IF fileOut = "throw" \/ noteOut = "throw"
       THEN q1
       ELSE SendToQueue(q1, NotificationQueue, NotificationMessage(f))

\* The queues after the gateway handler published the tasks of frame f:
\* publishFileUpload for an attachment, then publishNotification (skipped
\* when the first threw); fileOut and noteOut are the outcomes of the two
\* calls.
Published(f, fileOut, noteOut) ==
  LET q1 == IF f.loc.file /\ fileOut # "throw"
              THEN SendToQueue(queues, FileQueue, FileUploadMessage(f))
              ELSE queues
  IN IF (f.loc.file /\ fileOut = "throw") \/ noteOut = "throw"
       THEN q1
       ELSE SendToQueue(q1, NotificationQueue, NotificationMessage(f))

\* (a publish that throws ends the handler in its outer catch: the error is
\* emitted to the client and nothing else)
HandleSendMessagePublishRethrow(p, outcomes) ==
  /\ pc[p].at = "gw_publish"
  /\ LET f == pc[p] IN
     \E fileOut \in IF f.loc.file THEN outcomes ELSE {"true"}, noteOut \in outcomes :
       /\ queues' = Published(f, fileOut, noteOut)
       /\ IF fileOut = "throw" \/ noteOut = "throw"
            THEN SendMessageFail(p, f, "Failed to send message")
            ELSE Goto(p, [f EXCEPT !.at = "gw_emit"]) /\ UNCHANGED emitted
  /\ UNCHANGED <<messages, now>>
  /\ UNCHANGED notMessageVars

\* The gateway handler after sendMessage returned: the awaited publish*
\* calls inside their own try / catch, which logs a throw and goes on.
HandleSendMessagePublish(p, outcomes) ==
  /\ pc[p].at = "gw_publish"
  /\ LET f == pc[p] IN
     /\ \E fileOut \in IF f.loc.file THEN outcomes ELSE {"true"}, noteOut \in outcomes :
          queues' = Published(f, fileOut, noteOut)
     /\ Goto(p, [f EXCEPT !.at = "gw_emit"])
  /\ UNCHANGED <<messages, now, emitted>>
  /\ UNCHANGED notMessageVars

\* The gateway handler after the publishes: new_message to the room of the
\* receiver, message_sent to the client.
HandleSendMessageEmit(p) ==
  /\ pc[p].at = "gw_emit"
  /\ LET f == pc[p] IN
     /\ emitted' = emitted \cup
          {[event |-> "new_message", to |-> f.b, messageId |-> f.rid],
           [event |-> "message_sent", to |-> f.a, messageId |-> f.rid]}
     /\ Return(p, Ok(f))
  /\ UNCHANGED <<messages, now, queues>>
  /\ UNCHANGED notMessageVars

(***************************************************************************)
(* The realtime gateway: sockets, registry, rooms                           *)
(***************************************************************************)

\* The socket ids of the clients that connect.
Sockets == {"s1", "s2"}

\* No socket id (connectedUsers.get of an absent key), no user (a socket
\* whose user was never set).
NoSocket == "none"
NoUser == <<>>

\* The token found in the handshake: none, one that jwtService.verify
\* rejects, one whose payload has no sub, one of U1, one of U2.
Tokens == {"none", "garbage", "nosub", "t1", "t2"}

\* jwtService.verify(token) throws.
VerifyThrows(token) == token = "garbage"

\* user.sub of the payload jwtService.verify returns.
Sub(token) == IF token = "t1" THEN U1 ELSE IF token = "t2" THEN U2 ELSE NoUser

\* A socket: st is new (not connected yet), open or closed; token is its
\* handshake token; userId is client.userId; rooms holds the users whose
\* room user:<id> it joined; got holds the events emitted to it; at is
\* "ack" while handleConnection awaits client.join; currentSocketId is what
\* handleDisconnect read from the registry.
NewSocket == [st |-> "new", token |-> "none", userId |-> NoUser, rooms |-> {},
              got |-> {}, at |-> "idle", currentSocketId |-> NoSocket]

NoSockets ==
  /\ sockets = [s \in Sockets |-> NewSocket]
  /\ connectedUsers = [u \in Users |-> NoSocket]

\* client.emit(event): the event reaches a client that is still connected.
ClientEmit(sock, event) ==
  IF sock.st = "open" THEN [sock EXCEPT !.got = @ \cup {event}] ELSE sock

\* isUserOnline(userId): connectedUsers.has(userId).
IsUserOnline(userId) == connectedUsers[userId] # NoSocket

\* (a socket without a valid credential is sent the error and left open)
HandleConnectionNoDisconnect(s, token) ==
  /\ sockets[s].st = "new"
  /\ LET sock == [sockets[s] EXCEPT !.st = "open", !.token = token]
         userId == Sub(token) IN
     IF token = "none" \/ VerifyThrows(token) \/ userId = NoUser
       THEN /\ sockets' = [sockets EXCEPT ![s] = ClientEmit(sock, "error")]
            /\ UNCHANGED connectedUsers
       ELSE /\ connectedUsers' = [connectedUsers EXCEPT ![userId] = s]
            /\ sockets' = [sockets EXCEPT ![s] =
                   [sock EXCEPT !.userId = userId, !.rooms = {userId}, !.at = "ack"]]
  /\ UNCHANGED <<requests, messages, now, pager, emitted, queueVars, graphVars,
                 connections, pc, resp>>

\* handleConnection up to its await: without a token, with a token that
\* does not verify or with a payload without sub, the client is sent an
\* error and disconnected (handleDisconnect then finds no userId on it);
\* otherwise the user is set on the socket, the registry entry of the user
\* is overwritten and the socket joins the room of the user.
HandleConnection(s, token) ==
  /\ sockets[s].st = "new"
  /\ LET sock == [sockets[s] EXCEPT !.st = "open", !.token = token]
         userId == Sub(token) IN
     IF token = "none" \/ VerifyThrows(token) \/ userId = NoUser
       THEN /\ sockets' = [sockets EXCEPT ![s] =
                   [ClientEmit(sock, "error") EXCEPT !.st = "closed"]]
            /\ UNCHANGED connectedUsers
       ELSE /\ connectedUsers' = [connectedUsers EXCEPT ![userId] = s]
            /\ sockets' = [sockets EXCEPT ![s] =
                   [sock EXCEPT !.userId = userId, !.rooms = {userId}, !.at = "ack"]]
  /\ UNCHANGED <<requests, messages, now, pager, emitted, queueVars, graphVars,
                 connections, pc, resp>>

\* handleConnection after the await of client.join: client.emit('connected').
HandleConnectionConnected(s) ==
  /\ sockets[s].at = "ack"
  /\ sockets' = [sockets EXCEPT ![s] = [ClientEmit(@, "connected") EXCEPT !.at = "idle"]]
  /\ UNCHANGED <<requests, messages, now, pager, emitted, queueVars, graphVars,
                 connections, connectedUsers, pc, resp>>

\* (the registry entry of the user is deleted whatever socket it names)
HandleDisconnectAlways(s) ==
  /\ sockets[s].st = "open"
  /\ LET userId == sockets[s].userId
         currentSocketId == IF userId = NoUser THEN NoSocket ELSE connectedUsers[userId] IN
     /\ sockets' = [sockets EXCEPT ![s] =
            [@ EXCEPT !.st = "closed", !.rooms = {}, !.currentSocketId = currentSocketId]]
     /\ connectedUsers' = IF userId # NoUser
                            THEN [connectedUsers EXCEPT ![userId] = NoSocket]
                            ELSE connectedUsers
  /\ UNCHANGED <<requests, messages, now, pager, emitted, queueVars, graphVars,
                 connections, pc, resp>>

\* The client of an open socket goes away: the socket leaves its rooms and
\* handleDisconnect deletes the registry entry of its user if that entry
\* names this socket.
HandleDisconnect(s) ==
  /\ sockets[s].st = "open"
  /\ LET userId == sockets[s].userId
         currentSocketId == IF userId = NoUser THEN NoSocket ELSE connectedUsers[userId] IN
     /\ sockets' = [sockets EXCEPT ![s] =
            [@ EXCEPT !.st = "closed", !.rooms = {}, !.currentSocketId = currentSocketId]]
     /\ connectedUsers' = IF userId # NoUser /\ currentSocketId = s
                            THEN [connectedUsers EXCEPT ![userId] = NoSocket]
                            ELSE connectedUsers
  /\ UNCHANGED <<requests, messages, now, pager, emitted, queueVars, graphVars,
                 connections, pc, resp>>

\* server.to('user:<receiverId>').emit('user_typing', ...).
TypingEvent(receiverId) == [event |-> "user_typing", to |-> receiverId, messageId |-> 0]

\* The send_message event of socket s, handled by p: without a user on the
\* socket the client is sent an error, otherwise the user is the sender.
\* The handlers are bound to every socket that connected and look at
\* client.user only.
HandleSendMessageOf(p, s, receiverId, file) ==
  /\ sockets[s].st # "new"
  /\ IF sockets[s].userId = NoUser
       THEN /\ pc[p].at = "idle"
            /\ sockets' = [sockets EXCEPT ![s] = ClientEmit(@, "error")]
            /\ UNCHANGED <<requests, messages, now, emitted, queueVars, graphVars,
                           connections, connectedUsers, pc, resp>>
       ELSE HandleSendMessage(p, sockets[s].userId, receiverId, file)

\* The typing event of socket s: relayed to the room of the receiver.
HandleTyping(s, receiverId) ==
  /\ sockets[s].st # "new"
  /\ emitted' = IF sockets[s].userId = NoUser \/ receiverId = NoUser
                  THEN emitted
                  ELSE emitted \cup {TypingEvent(receiverId)}
  /\ UNCHANGED <<requests, messages, now, pager, queueVars, graphVars, connections,
                 gatewayVars, pc, resp>>

\* The mark_read event of socket s: confirmed to the client itself.
HandleMarkRead(s) ==
  /\ sockets[s].st # "new"
  /\ sockets' = [sockets EXCEPT ![s] =
         IF @.userId = NoUser THEN @ ELSE ClientEmit(@, "messages_read")]
  /\ UNCHANGED <<requests, messages, now, pager, emitted, queueVars, graphVars,
                 connections, connectedUsers, pc, resp>>

\* getMessages up to and including its first await: id and limit checks,
\* areConnected. cursor = 0 stands for no cursor.
GetMessagesCall(p, userId, otherUserId, cursor, limit, direction) ==
  /\ pc[p].at = "idle"
  /\ LET f == [Frame(IF cursor # 0 THEN "gm_cursor" ELSE "gm_find", "getMessages",
                     userId, otherUserId, 0)
                 EXCEPT !.loc.cursor = cursor, !.loc.limit = limit,
                        !.loc.dir = direction, !.loc.t0 = now] IN
     IF limit < MinLimit \/ limit > MaxLimit
       THEN Return(p, Fail(f, "BadRequest: Limit must be between 1 and 100"))
       ELSE IF ~AreConnected(userId, otherUserId)
         THEN Return(p, Fail(f, "BadRequest: Users must be connected to view messages"))
         ELSE Goto(p, f)
  /\ UNCHANGED <<messages, now, queues, emitted>>
  /\ UNCHANGED notMessageVars

\* await findById(cursor).select('createdAt'): the cursor is resolved to
\* the createdAt of the message it names.
GetMessagesCursor(p) ==
  /\ pc[p].at = "gm_cursor"
  /\ LET f == pc[p] IN
     IF f.loc.cursor \notin DOMAIN messages
       THEN Return(p, Fail(f, "BadRequest: Cursor message not found"))
       ELSE Goto(p, [f EXCEPT !.at = "gm_find",
                              !.loc.cut = messages[f.loc.cursor].createdAt])
  /\ UNCHANGED <<messages, now, queues, emitted>>
  /\ UNCHANGED notMessageVars

\* baseQuery: the messages of the pair, strictly older (before) or strictly
\* newer (after) than the cursor's createdAt when a cursor is given.
BaseQuery(userId, otherUserId, cursor, cut, direction) ==
  {i \in DOMAIN messages :
     /\ \/ (messages[i].senderId = userId /\ messages[i].receiverId = otherUserId)
        \/ (messages[i].senderId = otherUserId /\ messages[i].receiverId = userId)
     /\ cursor # 0 =>
          IF direction = "before" THEN messages[i].createdAt < cut
                                  ELSE messages[i].createdAt > cut}

\* sort({createdAt: -1}) for before, sort({createdAt: 1}) for after: every
\* order of the ids that the sort key allows (documents with equal
\* createdAt come in an order the storage chooses).
Sorted(ids, direction) ==
  {s \in [1..Cardinality(ids) -> ids] :
     /\ \A i, j \in DOMAIN s : i # j => s[i] # s[j]
     /\ \A i, j \in DOMAIN s : i < j =>
          IF direction = "before"
            THEN messages[s[i]].createdAt >= messages[s[j]].createdAt
            ELSE messages[s[i]].createdAt <= messages[s[j]].createdAt}

\* (every fetched row is kept, the limit + 1 probe row included)
PageOfKeepProbe(rows, limit, direction) ==
  LET fetched == SubSeq(rows, 1, Min(limit + 1, Len(rows))) IN
  [hasMore |-> Len(fetched) > limit,
   page |-> IF direction = "before" THEN Reverse(fetched) ELSE fetched]

\* limit(limit + 1), hasMore, slice(0, limit) and the reverse for before.
PageOf(rows, limit, direction) ==
  LET fetched == SubSeq(rows, 1, Min(limit + 1, Len(rows)))
      hasMore == Len(fetched) > limit
      messagesToReturn == IF hasMore THEN SubSeq(fetched, 1, limit) ELSE fetched
  IN [hasMore |-> hasMore,
      page |-> IF direction = "before" THEN Reverse(messagesToReturn)
                                       ELSE messagesToReturn]

\* (every unread message of the page, whoever received it)
UnreadMessageIdsAnyReceiver(page, userId) ==
  {page[k] : k \in {k \in DOMAIN page : ~messages[page[k]].isRead}}

\* unreadMessageIds: the messages of the page received by the caller and
\* not read yet.
UnreadMessageIds(page, userId) ==
  {page[k] : k \in {k \in DOMAIN page :
     messages[page[k]].receiverId = userId /\ ~messages[page[k]].isRead}}

\* nextCursor: the first id of the page for before, the last for after,
\* null (0) for an empty page.
NextCursor(page, direction) ==
  IF Len(page) = 0 THEN 0
  ELSE IF direction = "before" THEN page[1] ELSE page[Len(page)]

\* The response of a getMessages call whose frame holds the page.
Page(f) ==
  [Ok(f) EXCEPT !.res = [messages |-> f.loc.page,
                         nextCursor |-> NextCursor(f.loc.page, f.loc.dir),
                         hasMore |-> f.loc.hasMore]]

\* await find(baseQuery).sort(..).limit(limit + 1): the page is read; with
\* nothing to mark read the handler formats the page and returns.
GetMessagesFind(p) ==
  /\ pc[p].at = "gm_find"
  /\ LET f == pc[p]
         ids == BaseQuery(f.a, f.b, f.loc.cursor, f.loc.cut, f.loc.dir) IN
     \E rows \in Sorted(ids, f.loc.dir) :
       LET pg == PageOf(rows, f.loc.limit, f.loc.dir)
           unread == UnreadMessageIds(pg.page, f.a)
           g == [f EXCEPT !.at = "gm_update", !.loc.page = pg.page,
                          !.loc.hasMore = pg.hasMore, !.loc.unread = unread,
                          !.loc.t1 = now]
       IN IF unread = {} THEN Return(p, Page(g)) ELSE Goto(p, g)
  /\ UNCHANGED <<messages, now, queues, emitted>>
  /\ UNCHANGED notMessageVars

\* await updateMany({_id: {$in: unreadMessageIds}}, {isRead: true, readAt:
\* new Date()}): new Date() is evaluated after the page was read and before
\* the update is applied.
GetMessagesUpdate(p) ==
  /\ pc[p].at = "gm_update"
  /\ LET f == pc[p] IN
     \E readAt \in f.loc.t1..now :
       /\ messages' = [i \in DOMAIN messages |->
            IF i \in f.loc.unread
              THEN [messages[i] EXCEPT !.isRead = TRUE, !.readAt = readAt]
              ELSE messages[i]]
       /\ Return(p, Page(f))
  /\ UNCHANGED <<now, queues, emitted>>
  /\ UNCHANGED notMessageVars

(***************************************************************************)
(* Task consumers: retry with backoff, dead-letter queue                   *)
(***************************************************************************)
maxRetries == 3

\* A consumer (prefetch(1): one unacknowledged delivery at a time) is idle
\* or processing the delivery msg.
IdleConsumer == [at |-> "idle", msg |-> <<>>]

NoTally == [delivered |-> 0, failed |-> 0]

\* msg.properties.headers?.['x-retry-count'] || 0
RetryCount(msg) == IF msg.headers = <<>> THEN 0 ELSE msg.headers[1]

\* (one more retry than maxRetries)
ShouldRetryInclusive(retryCount) == retryCount <= maxRetries

\* retryCount < this.maxRetries
ShouldRetry(retryCount) == retryCount < maxRetries

\* (a delay that grows by one second per retry)
RetryDelayLinear(retryCount) == (retryCount + 1) * 1000

\* Math.pow(2, retryCount) * 1000
RetryDelay(retryCount) == (2 ^ retryCount) * 1000

\* (one prefetch window shared by the consumers of the channel: nothing is
\* delivered while any consumer holds an unacknowledged delivery)
ConsumeSharedPrefetch(q) ==
  /\ \A r \in Queues : consumer[r].at = "idle"
  /\ queues[q] # <<>>
  /\ LET msg == Head(queues[q]) IN
     /\ queues' = [queues EXCEPT ![q] = Tail(@)]
     /\ consumer' = [consumer EXCEPT ![q] = [at |-> "process", msg |-> msg]]
     /\ tally' = [tally EXCEPT ![q][msg.content.messageId].delivered = @ + 1]
  /\ UNCHANGED <<messages, dlqs, timers, bucket>>
  /\ UNCHANGED notConsumerVars

\* The broker delivers the head of queue q to its consumer, which starts
\* processMessage (up to its first await).
Consume(q) ==
  /\ consumer[q].at = "idle"
  /\ queues[q] # <<>>
  /\ LET msg == Head(queues[q]) IN
     /\ queues' = [queues EXCEPT ![q] = Tail(@)]
     /\ consumer' = [consumer EXCEPT ![q] = [at |-> "process", msg |-> msg]]
     /\ tally' = [tally EXCEPT ![q][msg.content.messageId].delivered = @ + 1]
  /\ UNCHANGED <<messages, dlqs, timers, bucket>>
  /\ UNCHANGED notConsumerVars

\* processMessage returned: channel.ack(msg).
Acked(q) ==
  /\ consumer' = [consumer EXCEPT ![q] = IdleConsumer]
  /\ UNCHANGED <<queues, dlqs, timers, tally>>

\* (a catch block that never acknowledges the failed delivery: with
\* prefetch(1) the consumer is given nothing more)
FailedUnacked(q) ==
  LET msg == consumer[q].msg
      retryCount == RetryCount(msg) IN
  /\ IF ShouldRetry(retryCount)
       THEN /\ timers' = timers \cup
                 {[queue |-> q, content |-> msg.content,
                   headers |-> <<retryCount + 1>>, delay |-> RetryDelay(retryCount)]}
            /\ UNCHANGED dlqs
       ELSE /\ dlqs' = SendToQueue(dlqs, q, msg.content)
            /\ UNCHANGED timers
  /\ consumer' = [consumer EXCEPT ![q].at = "unacked"]
  /\ tally' = [tally EXCEPT ![q][msg.content.messageId].failed = @ + 1]
  /\ UNCHANGED queues

\* processMessage threw: the catch block arms the republish timer or sends
\* the content to the .dlq queue, and acknowledges the delivery.
Failed(q) ==
  LET msg == consumer[q].msg
      retryCount == RetryCount(msg) IN
  /\ IF ShouldRetry(retryCount)
       THEN /\ timers' = timers \cup
                 {[queue |-> q, content |-> msg.content,
                   headers |-> <<retryCount + 1>>, delay |-> RetryDelay(retryCount)]}
            /\ UNCHANGED dlqs
       ELSE /\ dlqs' = SendToQueue(dlqs, q, msg.content)
            /\ UNCHANGED timers
  /\ consumer' = [consumer EXCEPT ![q] = IdleConsumer]
  /\ tally' = [tally EXCEPT ![q][msg.content.messageId].failed = @ + 1]
  /\ UNCHANGED queues

\* (no look at isFileUploaded: the file URL of every message found is
\* derived and saved again)
FileUploadFindNoCheck(errors) ==
  /\ consumer[FileQueue].at = "process"
  /\ LET id == consumer[FileQueue].msg.content.messageId IN
     \E dbError \in errors :
       IF dbError \/ id \notin DOMAIN messages
         THEN Failed(FileQueue)
         ELSE IF ~bucket
           THEN Failed(FileQueue)
           ELSE /\ consumer' = [consumer EXCEPT ![FileQueue].at = "save"]
                /\ UNCHANGED <<queues, dlqs, timers, tally>>
  /\ UNCHANGED <<messages, bucket>>
  /\ UNCHANGED notConsumerVars

\* FileUploadConsumer.processMessage, await findById: a rejected storage
\* call or a missing message throws, an attached file returns, a missing
\* bucket setting throws; otherwise the loaded document is saved next.
FileUploadFind(errors) ==
  /\ consumer[FileQueue].at = "process"
  /\ LET id == consumer[FileQueue].msg.content.messageId IN
     \E dbError \in errors :
       IF dbError \/ id \notin DOMAIN messages
         THEN Failed(FileQueue)
         ELSE IF messages[id].isFileUploaded /\ messages[id].fileUrl # Nil
           THEN Acked(FileQueue)
           ELSE IF ~bucket
             THEN Failed(FileQueue)
             ELSE /\ consumer' = [consumer EXCEPT ![FileQueue].at = "save"]
                  /\ UNCHANGED <<queues, dlqs, timers, tally>>
  /\ UNCHANGED <<messages, bucket>>
  /\ UNCHANGED notConsumerVars

\* (a save that writes back the whole document as it was loaded, unread)
FileUploadSaveLoaded(errors) ==
  /\ consumer[FileQueue].at = "save"
  /\ LET id == consumer[FileQueue].msg.content.messageId IN
     \E dbError \in errors :
       IF dbError
         THEN Failed(FileQueue) /\ UNCHANGED messages
         ELSE /\ messages' = [messages EXCEPT ![id].fileUrl = "url",
                                              ![id].isFileUploaded = TRUE,
                                              ![id].isRead = FALSE,
                                              ![id].readAt = 0]
              /\ Acked(FileQueue)
  /\ UNCHANGED bucket
  /\ UNCHANGED notConsumerVars

\* await message.save(): fileUrl and isFileUploaded of the document are set.
FileUploadSave(errors) ==
  /\ consumer[FileQueue].at = "save"
  /\ LET id == consumer[FileQueue].msg.content.messageId IN
     \E dbError \in errors :
       IF dbError
         THEN Failed(FileQueue) /\ UNCHANGED messages
         ELSE /\ messages' = [messages EXCEPT ![id].fileUrl = "url",
                                              ![id].isFileUploaded = TRUE]
              /\ Acked(FileQueue)
  /\ UNCHANGED bucket
  /\ UNCHANGED notConsumerVars

\* What NotificationConsumer.processMessage meets: no profile of the
\* receiver, no FCM token, a notification sent, or a rejected storage call
\* or push send.
NotificationOutcomes == {"noProfile", "noToken", "sent", "error"}

\* NotificationConsumer.processMessage: it returns unless a call rejects.
NotificationProcess(outcomes) ==
  /\ consumer[NotificationQueue].at = "process"
  /\ \E outcome \in outcomes :
       IF outcome = "error" THEN Failed(NotificationQueue)
                            ELSE Acked(NotificationQueue)
  /\ UNCHANGED <<messages, bucket>>
  /\ UNCHANGED notConsumerVars

\* A setTimeout callback runs: channel.publish('', queue, content, {headers:
\* {'x-retry-count': retryCount + 1}}).
TimerFire ==
  \E t \in timers :
    /\ queues' = [queues EXCEPT ![t.queue] =
                    Append(@, [content |-> t.content, headers |-> t.headers])]
    /\ timers' = timers \ {t}
    /\ UNCHANGED <<messages, dlqs, consumer, tally, bucket>>
    /\ UNCHANGED notConsumerVars

\* The process exits while a republish is pending: its setTimeout callbacks
\* and its handlers are gone with it, and the broker puts the deliveries it
\* had not acknowledged back at the head of their queues, for the consumers
\* of the restarted process.
Crash ==
  /\ timers # {}
  /\ timers' = {}
  /\ queues' = [q \in Queues |->
                  IF consumer[q].at = "idle" THEN queues[q]
                                             ELSE <<consumer[q].msg>> \o queues[q]]
  /\ consumer' = [q \in Queues |-> IdleConsumer]
  /\ pc' = [p \in Procs |-> IdleFrame]
  /\ resp' = NoResp
  /\ UNCHANGED <<requests, messages, now, pager, emitted, dlqs, tally, bucket,
                 graphVars, connections, gatewayVars>>

\* One step of the broker, of a consumer or of a timer.
ConsumerStep(errors, outcomes) ==
  \/ \E q \in Queues : Consume(q)
  \/ FileUploadFind(errors)
  \/ FileUploadSave(errors)
  \/ NotificationProcess(outcomes)
  \/ TimerFire

(***************************************************************************)
(* Eligibility engine and TrailConnection store                            *)
(***************************************************************************)
\* The albums with their owners (Album.userId) and the media with their
\* albums (Media.albumId).
Albums == {"a1", "a2", "a3", "a4"}

AlbumUserId == ("a1" :> U1) @@ ("a2" :> U2) @@ ("a3" :> U3) @@ ("a4" :> U2)

Media == {"m1", "m2", "m3", "m4"}

MediaAlbumId == ("m1" :> "a1") @@ ("m2" :> "a2") @@ ("m3" :> "a4") @@ ("m4" :> "a3")

\* s < t for two strings, as JavaScript compares them: at the first
\* position where they differ, or by length when one is a prefix.
StrLess(s, t) ==
  \/ \E k \in 1..Min(Len(s), Len(t)) :
        /\ \A j \in 1..(k - 1) : s[j] = t[j]
        /\ s[k] < t[k]
  \/ /\ Len(s) < Len(t)
     /\ \A j \in 1..Len(s) : s[j] = t[j]

\* (no ordering: the ids are returned as given)
NormalizeUserIdsAsGiven(userId1, userId2) == <<userId1, userId2>>

\* normalizeUserIds: the smaller id string first.
NormalizeUserIds(userId1, userId2) ==
  IF StrLess(userId1, userId2) THEN <<userId1, userId2>> ELSE <<userId2, userId1>>

\* (every album favorited by the second user)
AllFavoriteAlbumIds(albumIds, userId) == {a \in Albums : <<userId, a>> \in favorites}

\* favoriteModel.find({userId, albumId: {$in: albumIds}}): the albums of
\* albumIds favorited by userId.
FavoriteAlbumIdsIn(albumIds, userId) == {a \in albumIds : <<userId, a>> \in favorites}

\* (the reflections of any user on the target user's media)
GetMediaReflectionsOfAnyUser(userId, targetUserId) ==
  LET targetAlbumIds == {a \in Albums : AlbumUserId[a] = targetUserId}
      targetMediaIds == {m \in Media : MediaAlbumId[m] \in targetAlbumIds /\ m \notin deletedMedia}
  IN {r \in mediaReflections : r[2] \in targetMediaIds}

\* getMediaReflectionsByUser: the reflections of userId on the non-deleted
\* media of every album owned by targetUserId.
GetMediaReflectionsByUser(userId, targetUserId) ==
  LET targetAlbumIds == {a \in Albums : AlbumUserId[a] = targetUserId}
      targetMediaIds == {m \in Media : MediaAlbumId[m] \in targetAlbumIds /\ m \notin deletedMedia}
  IN {r \in mediaReflections : r[1] = userId /\ r[2] \in targetMediaIds}

\* checkConnectionEligibility, evaluated on the graph as stored.
CheckConnectionEligibility(userId1, userId2) ==
  LET user1FavoriteAlbumIds == FavoriteAlbumIdsIn(Albums, userId1)
      mutualFavoriteAlbumIds == FavoriteAlbumIdsIn(user1FavoriteAlbumIds, userId2)
      mutualAlbums == {a \in mutualFavoriteAlbumIds : a \notin deletedAlbums}
      user1OwnedAlbums == {a \in mutualAlbums : AlbumUserId[a] = userId1}
      user2OwnedAlbums == {a \in mutualAlbums : AlbumUserId[a] = userId2}
      user1ReflectionsOnUser2 == GetMediaReflectionsByUser(userId1, userId2)
      user2ReflectionsOnUser1 == GetMediaReflectionsByUser(userId2, userId1)
      totalBidirectionalReflections ==
        Cardinality(user1ReflectionsOnUser2) + Cardinality(user2ReflectionsOnUser1)
  IN IF userId1 = userId2
       THEN [NoEligibility EXCEPT !.reasons = <<"Cannot connect with yourself">>]
     ELSE IF user1FavoriteAlbumIds = {} \/ mutualFavoriteAlbumIds = {}
       THEN [NoEligibility EXCEPT !.reasons = <<"No mutual album favorites">>]
     ELSE IF user1OwnedAlbums = {} \/ user2OwnedAlbums = {}
       THEN [eligible |-> FALSE, mutualAlbums |-> mutualAlbums, reflectionCount |-> 0,
             reasons |-> <<"No mutual album favorites (both directions required)">>]
     ELSE IF user1ReflectionsOnUser2 = {} \/ user2ReflectionsOnUser1 = {}
       THEN [eligible |-> FALSE, mutualAlbums |-> mutualAlbums,
             reflectionCount |-> totalBidirectionalReflections,
             reasons |-> <<"No bidirectional reflections found">>]
     ELSE [eligible |-> TRUE, mutualAlbums |-> mutualAlbums,
           reflectionCount |-> totalBidirectionalReflections, reasons |-> <<>>]

\* GET /trail-connections/check-eligibility/:userId.
CheckEligibilityCall(p, userId1, userId2) ==
  /\ pc[p].at = "idle"
  /\ Return(p, Ok([Frame("idle", "checkConnectionEligibility", userId1, userId2, 0)
                     EXCEPT !.eligibility = CheckConnectionEligibility(userId1, userId2)]))
  /\ UNCHANGED <<graphVars, connections>>
  /\ UNCHANGED notTrailVars

\* (no unique index)
TrailIndexNone(store, doc) == FALSE

\* The unique index {userA, userB}: an insert of doc is refused when a
\* document with the same key is stored.
TrailIndexDup(store, doc) ==
  \E i \in DOMAIN store : store[i].userA = doc.userA /\ store[i].userB = doc.userB

\* The pre-save hook: userA and userB are swapped when userA > userB.
PreSave(doc) ==
  IF StrLess(doc.userB, doc.userA)
    THEN [doc EXCEPT !.userA = doc.userB, !.userB = doc.userA]
    ELSE doc

\* find({userA, userB}) for the normalized pair of userId1 and userId2.
FindConnection(userId1, userId2) ==
  LET ab == NormalizeUserIds(userId1, userId2) IN
  {i \in DOMAIN connections :
     connections[i].userA = ab[1] /\ connections[i].userB = ab[2]}

\* Handlers that will still insert a TrailConnection.
ConnectsInFlight == Cardinality({p \in Procs : pc[p].op = "createConnection"})

\* (no eligibility check before the lookup)
CreateConnectionCallUnchecked(p, userId1, userId2) ==
  /\ pc[p].at = "idle"
  /\ Len(connections) + ConnectsInFlight < MaxConnections
  /\ LET eligibility == CheckConnectionEligibility(userId1, userId2)
         f == [Frame("cc_find", "createConnection", userId1, userId2, 0)
                 EXCEPT !.eligibility = eligibility] IN
     IF userId1 = userId2
       THEN Return(p, Fail(f, "BadRequest: Cannot connect with yourself"))
       ELSE Goto(p, f)
  /\ UNCHANGED <<graphVars, connections>>
  /\ UNCHANGED notTrailVars

\* createConnection up to the await of findOne: self check, eligibility.
CreateConnectionCall(p, userId1, userId2) ==
  /\ pc[p].at = "idle"
  /\ Len(connections) + ConnectsInFlight < MaxConnections
  /\ LET eligibility == CheckConnectionEligibility(userId1, userId2)
         f == [Frame("cc_find", "createConnection", userId1, userId2, 0)
                 EXCEPT !.eligibility = eligibility] IN
     IF userId1 = userId2
       THEN Return(p, Fail(f, "BadRequest: Cannot connect with yourself"))
       ELSE IF ~eligibility.eligible
         THEN Return(p, Fail(f, "BadRequest: Connection not eligible"))
         ELSE Goto(p, f)
  /\ UNCHANGED <<graphVars, connections>>
  /\ UNCHANGED notTrailVars

\* await findOne({userA, userB}): an active document ends the call, an
\* inactive one is reactivated next, none is created next.
CreateConnectionFind(p) ==
  /\ pc[p].at = "cc_find"
  /\ LET f == pc[p]
         existing == FindConnection(f.a, f.b) IN
     IF existing = {}
       THEN Goto(p, [f EXCEPT !.at = "cc_create"])
       ELSE \E i \in existing :
              IF connections[i].isActive
                THEN Return(p, OkMessage([f EXCEPT !.rid = i], "Already connected"))
                ELSE Goto(p, [f EXCEPT !.at = "cc_reactivate", !.rid = i])
  /\ UNCHANGED <<graphVars, connections>>
  /\ UNCHANGED notTrailVars

\* await updateOne({_id}, {isActive: true, mutualAlbumIds, reflectionCount}).
CreateConnectionReactivate(p) ==
  /\ pc[p].at = "cc_reactivate"
  /\ LET f == pc[p] IN
     /\ connections' = [connections EXCEPT ![f.rid] =
            [@ EXCEPT !.isActive = TRUE,
                      !.mutualAlbumIds = f.eligibility.mutualAlbums,
                      !.reflectionCount = f.eligibility.reflectionCount]]
     /\ Return(p, OkMessage(f, "Connection reactivated"))
  /\ UNCHANGED graphVars
  /\ UNCHANGED notTrailVars

\* await create({userA, userB, ...}): pre-save hook, then the insert guarded
\* by the unique index; a duplicate-key error is rethrown as a BadRequest.
CreateConnectionCreate(p) ==
  /\ pc[p].at = "cc_create"
  /\ LET f == pc[p]
         ab == NormalizeUserIds(f.a, f.b)
         doc == PreSave([userA |-> ab[1], userB |-> ab[2],
                         mutualAlbumIds |-> f.eligibility.mutualAlbums,
                         reflectionCount |-> f.eligibility.reflectionCount,
                         isActive |-> TRUE]) IN
     IF TrailIndexDup(connections, doc)
       THEN /\ Return(p, Fail(f, "BadRequest: Failed to create connection"))
            /\ UNCHANGED connections
       ELSE /\ connections' = Append(connections, doc)
            /\ Return(p, OkMessage([f EXCEPT !.rid = Len(connections) + 1],
                                   "Connection created"))
  /\ UNCHANGED graphVars
  /\ UNCHANGED notTrailVars

\* removeConnection: updateOne({userA, userB}, {isActive: false}).
RemoveConnectionCall(p, userId1, userId2) ==
  /\ pc[p].at = "idle"
  /\ LET f == Frame("idle", "removeConnection", userId1, userId2, 0)
         matched == FindConnection(userId1, userId2) IN
     IF matched = {}
       THEN /\ Return(p, Fail(f, "NotFound: Connection not found"))
            /\ UNCHANGED connections
       ELSE \E i \in matched :
              /\ connections' = [connections EXCEPT ![i].isActive = FALSE]
              /\ Return(p, OkMessage([f EXCEPT !.rid = i], "Connection removed"))
  /\ UNCHANGED graphVars
  /\ UNCHANGED notTrailVars

\* updateConnectionEligibility up to its second await: findOne of the
\* active document of the pair.
UpdateConnectionEligibilityCall(p, userId1, userId2) ==
  /\ pc[p].at = "idle"
  /\ LET f == Frame("ue_check", "updateConnectionEligibility", userId1, userId2, 0)
         active == {i \in FindConnection(userId1, userId2) : connections[i].isActive} IN
     IF active = {}
       THEN Return(p, OkMessage(f, "No active connection found"))
       ELSE \E i \in active : Goto(p, [f EXCEPT !.rid = i])
  /\ UNCHANGED <<graphVars, connections>>
  /\ UNCHANGED notTrailVars

\* await checkConnectionEligibility.
UpdateConnectionEligibilityCheck(p) ==
  /\ pc[p].at = "ue_check"
  /\ LET f == pc[p] IN
     Goto(p, [f EXCEPT !.at = "ue_update",
                       !.eligibility = CheckConnectionEligibility(f.a, f.b)])
  /\ UNCHANGED <<graphVars, connections>>
  /\ UNCHANGED notTrailVars

\* (stores the counts and never deactivates)
UpdateConnectionEligibilityUpdateKeep(p) ==
  /\ pc[p].at = "ue_update"
  /\ LET f == pc[p] IN
     /\ connections' = [connections EXCEPT ![f.rid] =
            [@ EXCEPT !.mutualAlbumIds = f.eligibility.mutualAlbums,
                      !.reflectionCount = f.eligibility.reflectionCount]]
     /\ Return(p, OkMessage(f, "Connection updated"))
  /\ UNCHANGED graphVars
  /\ UNCHANGED notTrailVars

\* await updateOne({_id}, {mutualAlbumIds, reflectionCount}).
UpdateConnectionEligibilityUpdate(p) ==
  /\ pc[p].at = "ue_update"
  /\ LET f == pc[p] IN
     /\ connections' = [connections EXCEPT ![f.rid] =
            [@ EXCEPT !.mutualAlbumIds = f.eligibility.mutualAlbums,
                      !.reflectionCount = f.eligibility.reflectionCount]]
     /\ IF f.eligibility.eligible
          THEN Return(p, OkMessage(f, "Connection updated"))
          ELSE Goto(p, [f EXCEPT !.at = "ue_deactivate"])
  /\ UNCHANGED graphVars
  /\ UNCHANGED notTrailVars

\* await updateOne({_id}, {isActive: false}) of a pair no longer eligible.
UpdateConnectionEligibilityDeactivate(p) ==
  /\ pc[p].at = "ue_deactivate"
  /\ LET f == pc[p] IN
     /\ connections' = [connections EXCEPT ![f.rid].isActive = FALSE]
     /\ Return(p, OkMessage(f, "Connection deactivated (no longer eligible)"))
  /\ UNCHANGED graphVars
  /\ UNCHANGED notTrailVars

\* A reflection of edges is stored or removed (MediaReflection documents
\* are written outside this service).
ReflectionChange(edges) ==
  /\ \E r \in edges :
       mediaReflections' = IF r \in mediaReflections THEN mediaReflections \ {r}
                                                      ELSE mediaReflections \cup {r}
  /\ UNCHANGED <<favorites, deletedAlbums, deletedMedia, connections, pc, resp>>
  /\ UNCHANGED notTrailVars

\* One step of a trail-connection handler run by p on one of pairs.
TrailStep(p, pairs) ==
  \/ \E ab \in pairs : CreateConnectionCall(p, ab[1], ab[2])
  \/ CreateConnectionFind(p)
  \/ CreateConnectionReactivate(p)
  \/ CreateConnectionCreate(p)
  \/ \E ab \in pairs : RemoveConnectionCall(p, ab[1], ab[2])
  \/ \E ab \in pairs : UpdateConnectionEligibilityCall(p, ab[1], ab[2])
  \/ UpdateConnectionEligibilityCheck(p)
  \/ UpdateConnectionEligibilityUpdate(p)
  \/ UpdateConnectionEligibilityDeactivate(p)

\* The wall clock advances.
Tick ==
  /\ now < MaxClock
  /\ now' = now + 1
  /\ UNCHANGED notClockVars

\* One step of a sendMessage handler run by p: pairs holds the <<sender,
\* receiver>> pairs that send.
SendStep(p, pairs) ==
  /\ \/ \E ab \in pairs : SendMessageCall(p, ab[1], ab[2])
     \/ SendMessageCreate(p)
  /\ UNCHANGED pager

\* One step of the gateway's send_message handler run by p; the clients
\* send until cap messages are stored or being stored.
GatewayStep(p, pairs, files, outcomes, cap) ==
  /\ \/ /\ Len(messages) + CreatesInFlight < cap
        /\ \E ab \in pairs, file \in files : HandleSendMessage(p, ab[1], ab[2], file)
     \/ SendMessageCreate(p)
     \/ HandleSendMessagePublish(p, outcomes)
     \/ HandleSendMessageEmit(p)
  /\ UNCHANGED pager

\* One step of a getMessages handler run by p: pairs holds the <<caller,
\* other user>> pairs that read.
ReadStep(p, pairs) ==
  /\ \/ \E ab \in pairs, args \in ReadArgs :
           GetMessagesCall(p, ab[1], ab[2], args[1], args[2], args[3])
     \/ GetMessagesCursor(p)
     \/ GetMessagesFind(p)
     \/ GetMessagesUpdate(p)
  /\ UNCHANGED pager

\* The paging client: it calls GET /messages/with/:otherUserId with no cursor
\* and direction = before, then follows nextCursor while hasMore is true,
\* keeping the pages it was given.
PagerOff == [st |-> "off", a |-> Nil, b |-> Nil, limit |-> 0, got |-> <<>>, pages |-> 0]

\* The first call, issued while no send is in flight.
PagerStart(p, userId, otherUserId, limit) ==
  /\ pager.st = "off"
  /\ \A q \in Procs : pc[q].at = "idle"
  /\ GetMessagesCall(p, userId, otherUserId, 0, limit, "before")
  /\ pager' = [PagerOff EXCEPT !.st = "wait", !.a = userId, !.b = otherUserId,
                               !.limit = limit]

\* A response arrived: the page is kept and, when hasMore is true, the next
\* call is issued with cursor = nextCursor.
PagerFollow(p) ==
  /\ pager.st = "wait"
  /\ pc[p].at = "idle"
  /\ resp.op = "getMessages"
  /\ LET got == pager.got \o resp.res.messages
         kept == [pager EXCEPT !.got = got, !.pages = pager.pages + 1] IN
     IF resp.ok /\ resp.res.hasMore
       THEN /\ GetMessagesCall(p, pager.a, pager.b, resp.res.nextCursor,
                               pager.limit, "before")
            /\ pager' = kept
       ELSE /\ pager' = [kept EXCEPT !.st = IF resp.ok THEN "done" ELSE "failed"]
            /\ UNCHANGED <<messages, now, queues, emitted, pc, resp>>
            /\ UNCHANGED notMessageVars

\* One step of the paging client, or of the handler serving it.
PagerStep(p, pairs, limits) ==
  \/ \E ab \in pairs, limit \in limits : PagerStart(p, ab[1], ab[2], limit)
  \/ PagerFollow(p)
  \/ /\ \/ GetMessagesCursor(p)
        \/ GetMessagesFind(p)
        \/ GetMessagesUpdate(p)
     /\ UNCHANGED pager

\* The state of a freshly started service, but for the stored connection
\* requests and the configuration.
InitService ==
  /\ messages = <<>>
  /\ now = 1
  /\ pager = PagerOff
  /\ emitted = {}
  /\ queues = [q \in Queues |-> <<>>]
  /\ dlqs = [q \in Queues |-> <<>>]
  /\ consumer = [q \in Queues |-> IdleConsumer]
  /\ timers = {}
  /\ tally = [q \in Queues |-> [i \in MsgIds |-> NoTally]]
  /\ connections = <<>>
  /\ NoSockets
  /\ pc = [p \in Procs |-> IdleFrame]
  /\ resp = NoResp

\* No favorite, no reflection, nothing deleted.
NoEdges ==
  /\ favorites = {}
  /\ mediaReflections = {}
  /\ deletedAlbums = {}
  /\ deletedMedia = {}

Init ==
  /\ requests = <<>>
  /\ bucket = TRUE
  /\ NoEdges
  /\ InitService

\* Concurrent connection-request handlers of two users.
Next == \E p \in Procs : RequestStep(p, {U1, U2}, {U1, U2})

Spec == Init /\ [][Next]_vars

\* Connection-request calls issued one after the other (each call returns
\* before the next one starts), among all users.
NextSeq == RequestStep("p1", Users, Users)

SpecSeq == Init /\ [][NextSeq]_vars

\* POST /messages/send served concurrently with the
\* connection-request routes; U1 and U2 send requests, U2 and U3 receive and
\* answer them, every user sends messages to every user.
NextSend ==
  \/ RequestStep("p1", {U1, U2}, {U2, U3})
  \/ \E p \in Procs : SendStep(p, Users \X Users)

SpecSend == Init /\ [][NextSend]_vars

\* A service started on a database in which U1 is connected with U2
\* (request sent by U1) and with U3 (request sent by U3); U2 and U3 are not
\* connected.
Connected ==
  <<[requesterId |-> U1, recipientId |-> U2, status |-> "accepted"],
    [requesterId |-> U3, recipientId |-> U1, status |-> "accepted"]>>

InitConnected ==
  /\ requests = Connected
  /\ bucket = TRUE
  /\ NoEdges
  /\ InitService

\* GET /messages/with/:id called by U1 while messages are sent to and by U1
\* (POST /messages/send) and the clock advances.
NextRead ==
  \/ SendStep("p1", {<<U2, U1>>, <<U1, U2>>, <<U3, U1>>, <<U2, U3>>})
  \/ ReadStep("p2", {<<U1, U2>>, <<U1, U3>>, <<U1, U1>>})
  \/ Tick

SpecRead == InitConnected /\ [][NextRead]_vars

\* Messages are sent to and by U1; then, with the message set at rest, U1
\* pages through the conversation with U2 while the clock advances.
NextPage ==
  \/ /\ pager.st = "off"
     /\ SendStep("p1", {<<U2, U1>>, <<U1, U2>>, <<U3, U1>>})
  \/ PagerStep("p2", {<<U1, U2>>}, {1, 2})
  \/ Tick

SpecPage == InitConnected /\ [][NextPage]_vars

\* Messages are sent between connected and unconnected users over POST
\* /messages/send and over the gateway, with and without attachment; a
\* publish returns true, returns false or throws. No consumer runs: the
\* queues keep what was published.
DispatchPairs == {<<U1, U2>>, <<U2, U1>>, <<U2, U3>>}

NextDispatch ==
  \/ SendStep("p1", DispatchPairs)
  \/ GatewayStep("p2", DispatchPairs, BOOLEAN, PublishOutcomes, MaxMessages)

SpecDispatch == InitConnected /\ [][NextDispatch]_vars

\* A service whose bucket setting is present or missing.
InitQueue ==
  /\ requests = Connected
  /\ bucket \in BOOLEAN
  /\ NoEdges
  /\ InitService

\* U1 sends messages to U2 over the gateway, with and without attachment;
\* the consumers process the published tasks, any storage call or push send
\* of theirs may be rejected.
NextQueue ==
  \/ GatewayStep("p1", {<<U1, U2>>}, BOOLEAN, {"true"}, MaxSends)
  \/ ConsumerStep(BOOLEAN, {"sent", "error"})

SpecQueue == InitQueue /\ [][NextQueue]_vars

\* The same service, whose process may exit and restart while a republish
\* is pending.
NextCrash ==
  \/ NextQueue
  \/ Crash

SpecCrash == InitQueue /\ [][NextCrash]_vars

\* A service after U1 sent two messages with attachment to U2 over the
\* gateway: the two tasks of each message wait on their queues.
Sent(i) == [Frame("gw_emit", "send_message", U1, U2, i) EXCEPT !.loc.file = TRUE]

InitLive ==
  /\ requests = Connected
  /\ bucket \in BOOLEAN
  /\ NoEdges
  /\ messages = <<NewMessage(U1, U2, TRUE, 1), NewMessage(U1, U2, TRUE, 1)>>
  /\ now = 1
  /\ pager = PagerOff
  /\ emitted = {[event |-> e, to |-> IF e = "new_message" THEN U2 ELSE U1, messageId |-> i] :
                  e \in {"new_message", "message_sent"}, i \in {1, 2}}
  /\ queues =
       SendToQueue(SendToQueue(SendToQueue(SendToQueue([q \in Queues |-> <<>>],
         FileQueue, FileUploadMessage(Sent(1))),
         NotificationQueue, NotificationMessage(Sent(1))),
         FileQueue, FileUploadMessage(Sent(2))),
         NotificationQueue, NotificationMessage(Sent(2)))
  /\ dlqs = [q \in Queues |-> <<>>]
  /\ consumer = [q \in Queues |-> IdleConsumer]
  /\ timers = {}
  /\ tally = [q \in Queues |-> [i \in MsgIds |-> NoTally]]
  /\ connections = <<>>
  /\ NoSockets
  /\ pc = [p \in Procs |-> IdleFrame]
  /\ resp = NoResp

\* The consumers process the tasks; any storage call or push send of theirs
\* may be rejected.
NextLive == ConsumerStep(BOOLEAN, {"sent", "error"})

\* The process stays up: the broker delivers to an idle consumer, the
\* awaited calls of processMessage return or reject, the timers fire.
FairLive ==
  /\ \A q \in Queues : WF_vars(Consume(q))
  /\ WF_vars(FileUploadFind(BOOLEAN))
  /\ WF_vars(FileUploadSave(BOOLEAN))
  /\ WF_vars(NotificationProcess({"sent", "error"}))
  /\ WF_vars(TimerFire)

SpecLive == InitLive /\ [][NextLive]_vars /\ FairLive

\* A service with one stored message with attachment, sent by U1 to U2 over
\* the gateway, whose file is or is not attached yet; chat.file.upload holds
\* the task of that message twice (a duplicate) and a task naming a message
\* id that is not stored.
InitFile ==
  /\ requests = Connected
  /\ bucket \in BOOLEAN
  /\ NoEdges
  /\ \E uploaded \in BOOLEAN :
       messages = <<[NewMessage(U1, U2, TRUE, 1) EXCEPT
                       !.isFileUploaded = uploaded,
                       !.fileUrl = IF uploaded THEN "url" ELSE Nil]>>
  /\ now = 1
  /\ pager = PagerOff
  /\ emitted = {[event |-> "new_message", to |-> U2, messageId |-> 1],
                [event |-> "message_sent", to |-> U1, messageId |-> 1]}
  /\ queues =
       SendToQueue(SendToQueue(SendToQueue([q \in Queues |-> <<>>],
         FileQueue, FileUploadMessage(Sent(1))),
         FileQueue, FileUploadMessage(Sent(1))),
         FileQueue, FileUploadMessage(Sent(2)))
  /\ dlqs = [q \in Queues |-> <<>>]
  /\ consumer = [q \in Queues |-> IdleConsumer]
  /\ timers = {}
  /\ tally = [q \in Queues |-> [i \in MsgIds |-> NoTally]]
  /\ connections = <<>>
  /\ NoSockets
  /\ pc = [p \in Procs |-> IdleFrame]
  /\ resp = NoResp

\* The file-upload consumer processes the tasks; findById answers, save()
\* may be rejected.
NextFile ==
  \/ Consume(FileQueue)
  \/ FileUploadFind({FALSE})
  \/ FileUploadSave(BOOLEAN)
  \/ TimerFire

SpecFile == InitFile /\ [][NextFile]_vars

\* A service with one stored message with attachment, sent by U1 to U2 over
\* the gateway, whose file-upload task waits on its queue.
InitAttach ==
  /\ requests = Connected
  /\ bucket = TRUE
  /\ NoEdges
  /\ messages = <<NewMessage(U1, U2, TRUE, 1)>>
  /\ now = 1
  /\ pager = PagerOff
  /\ emitted = {[event |-> "new_message", to |-> U2, messageId |-> 1],
                [event |-> "message_sent", to |-> U1, messageId |-> 1]}
  /\ queues = SendToQueue([q \in Queues |-> <<>>], FileQueue, FileUploadMessage(Sent(1)))
  /\ dlqs = [q \in Queues |-> <<>>]
  /\ consumer = [q \in Queues |-> IdleConsumer]
  /\ timers = {}
  /\ tally = [q \in Queues |-> [i \in MsgIds |-> NoTally]]
  /\ connections = <<>>
  /\ NoSockets
  /\ pc = [p \in Procs |-> IdleFrame]
  /\ resp = NoResp

\* The file-upload consumer attaches the file while U2, the receiver, and
\* U1, the sender, read the conversation and the clock advances.
NextAttach ==
  \/ Consume(FileQueue)
  \/ FileUploadFind(BOOLEAN)
  \/ FileUploadSave(BOOLEAN)
  \/ TimerFire
  \/ ReadStep("p2", {<<U2, U1>>, <<U1, U2>>})
  \/ Tick

SpecAttach == InitAttach /\ [][NextAttach]_vars

\* Every writer of the Message collection at work: U1 sends messages to U2
\* over the gateway, with and without attachment, the file-upload consumer
\* processes the published tasks (the notification consumer writes no
\* Message) and U2 reads the conversation.
NextLog ==
  \/ GatewayStep("p1", {<<U1, U2>>}, BOOLEAN, {"true"}, MaxSends)
  \/ Consume(FileQueue)
  \/ FileUploadFind(BOOLEAN)
  \/ FileUploadSave(BOOLEAN)
  \/ TimerFire
  \/ ReadStep("p2", {<<U2, U1>>})

SpecLog == InitQueue /\ [][NextLog]_vars

\* Two clients connect to the gateway with any token, send events and go
\* away, in any order; U1 and U2 are connected users. Every publish is
\* taken by the broker and no consumer runs.
SocketStep(p, receivers) ==
  \/ \E s \in Sockets, token \in Tokens : HandleConnection(s, token) /\ UNCHANGED pager
  \/ \E s \in Sockets : HandleConnectionConnected(s) /\ UNCHANGED pager
  \/ \E s \in Sockets : HandleDisconnect(s) /\ UNCHANGED pager
  \/ /\ Len(messages) + CreatesInFlight < MaxSends
     /\ \E s \in Sockets, receiverId \in receivers :
          HandleSendMessageOf(p, s, receiverId, FALSE)
     /\ UNCHANGED pager
  \/ \E s \in Sockets, receiverId \in receivers \cup {NoUser} : HandleTyping(s, receiverId)
  \/ \E s \in Sockets : HandleMarkRead(s) /\ UNCHANGED pager

NextGateway ==
  \/ SocketStep("p1", {U1, U2})
  \/ SendMessageCreate("p1") /\ UNCHANGED pager
  \/ HandleSendMessagePublish("p1", {"true"}) /\ UNCHANGED pager
  \/ HandleSendMessageEmit("p1") /\ UNCHANGED pager

SpecGateway == InitConnected /\ [][NextGateway]_vars

\* Any graph of favorites of U1 and U2 on their albums, of reflections of U1
\* and U2 and of deleted albums and media.
InitGraph ==
  /\ requests = <<>>
  /\ bucket = TRUE
  /\ favorites \in SUBSET ({U1, U2} \X {"a1", "a2", "a4"})
  /\ mediaReflections \in SUBSET {<<U1, "m2">>, <<U1, "m3">>, <<U1, "m4">>,
                                   <<U2, "m1">>, <<U2, "m2">>}
  /\ deletedAlbums \in SUBSET {"a1", "a2", "a4"}
  /\ deletedMedia \in SUBSET {"m1", "m2"}
  /\ InitService

\* The eligibility of U1 and U2 is checked, in both directions.
NextGraph == \E a \in {U1, U2}, b \in {U1, U2} : CheckEligibilityCall("p1", a, b)

SpecGraph == InitGraph /\ [][NextGraph]_vars

\* U1 and U2, and U3 and U1, each favorited their own album and the album
\* of the other, and reflected on a media of the other.
InitTrail ==
  /\ requests = <<>>
  /\ bucket = TRUE
  /\ favorites = {<<U1, "a1">>, <<U1, "a2">>, <<U1, "a3">>, <<U2, "a1">>,
                  <<U2, "a2">>, <<U3, "a1">>, <<U3, "a3">>}
  /\ mediaReflections = {<<U1, "m2">>, <<U2, "m1">>, <<U3, "m1">>, <<U1, "m4">>}
  /\ deletedAlbums = {}
  /\ deletedMedia = {}
  /\ InitService

\* Concurrent trail-connection handlers on the pair of U1 and U2, called in
\* both orders, and on the pair of U3 and U1, while U1 removes and restores
\* a reflection.
NextTrail ==
  \/ \E p \in Procs : TrailStep(p, {<<U1, U2>>, <<U2, U1>>, <<U3, U1>>})
  \/ ReflectionChange({<<U1, "m2">>})

SpecTrail == InitTrail /\ [][NextTrail]_vars

(***************************************************************************)
(* Properties of the connection-request state machine                      *)
(***************************************************************************)

\* The documents of the unordered pair {a, b} with one of the given statuses.
PairRecords(store, a, b, statuses) ==
  {i \in DOMAIN store :
     /\ store[i].status \in statuses
     /\ {store[i].requesterId, store[i].recipientId} = {a, b}}

\* C1: in every reachable state, concurrent sendRequest calls included, an
\* unordered pair of users has at most one ConnectionRequest with status
\* pending.
C1_OnePendingPerPair ==
  \A a \in Users, b \in Users :
    a # b => Cardinality(PairRecords(requests, a, b, {"pending"})) <= 1

\* C9: a sendRequest(requester, recipient) that runs alone fails and
\* stores nothing when requester = recipient or the pair has an accepted or
\* a pending request in either direction; in every other case it appends
\* exactly one pending request (requester -> recipient) and changes no
\* stored request.
C9_SendRequestOutcome ==
  [][resp'.op = "sendRequest" =>
       LET a == resp'.a
           b == resp'.b
           blocked == \/ a = b
                      \/ PairRecords(requests, a, b, {"accepted", "pending"}) # {}
       IN /\ blocked => (~resp'.ok /\ requests' = requests)
          /\ ~blocked =>
               /\ resp'.ok
               /\ requests' = Append(requests,
                    [requesterId |-> a, recipientId |-> b, status |-> "pending"])
    ]_vars

\* C9 witness: a sendRequest succeeded although an earlier (rejected)
\* request of the same pair is stored.
C9_Witness ==
  /\ resp.op = "sendRequest" /\ resp.ok
  /\ Len(requests) >= 2
  /\ PairRecords(requests, resp.a, resp.b, {"rejected"}) # {}

\* C10: the status of a ConnectionRequest changes at most once (once it is
\* accepted or rejected it keeps that status) and no request is deleted,
\* concurrent acceptRequest / rejectRequest calls included.
C10_StatusChangesOnce ==
  [][\A i \in DOMAIN requests :
       /\ i \in DOMAIN requests'
       /\ requests[i].status # "pending" => requests'[i].status = requests[i].status
    ]_vars

C12_ResendAfterRejection ==
  [][(/\ resp'.op = "sendRequest"
      /\ PairRecords(requests, resp'.a, resp'.b, {"rejected"}) # {}
      /\ PairRecords(requests, resp'.a, resp'.b, {"pending", "accepted"}) = {}) =>
       /\ resp'.ok
       /\ Len(requests') = Len(requests) + 1
       /\ requests'[Len(requests')] =
            [requesterId |-> resp'.a, recipientId |-> resp'.b, status |-> "pending"]
       /\ \A i \in PairRecords(requests, resp'.a, resp'.b, {"rejected"}) :
            requests'[i] = requests[i]
       /\ resp'.rid = Len(requests')
    ]_vars

\* C12 witness: the recipient of a rejected request has, in turn, sent a
\* request to its requester; both documents are stored, the first rejected
\* and the second pending.
C12_Witness ==
  /\ resp.op = "sendRequest" /\ resp.ok
  /\ \E i \in DOMAIN requests :
       /\ requests[i].status = "rejected"
       /\ requests[i].requesterId = resp.b /\ requests[i].recipientId = resp.a
  /\ resp.rid \in DOMAIN requests
  /\ requests[resp.rid] =
       [requesterId |-> resp.a, recipientId |-> resp.b, status |-> "pending"]

(***************************************************************************)
(* Properties of the message log                                           *)
(***************************************************************************)

Conversation(a, b) ==
  {i \in DOMAIN messages : {messages[i].senderId, messages[i].receiverId} = {a, b}}

\* C4: whatever the createdAt values of the messages of a connected pair,
\* paging from no cursor with direction = before until hasMore is false
\* yields every message of the pair exactly once.
C4_PagingComplete ==
  pager.st = "done" =>
    /\ Range(pager.got) = Conversation(pager.a, pager.b)
    /\ Len(pager.got) = Cardinality(Range(pager.got))

\* The same for conversations whose messages have pairwise distinct
\* createdAt values.
PagingCompleteDistinct ==
  (\A i, j \in Conversation(pager.a, pager.b) :
      i # j => messages[i].createdAt # messages[j].createdAt)
    => C4_PagingComplete


\* C5: a getMessages(caller, other) call changes messages only in its
\* updateMany step, and there only the messages of the returned page that
\* the caller received and that were unread: these get isRead = TRUE and a
\* readAt not earlier than the call; every other message (sent by the
\* caller, outside the page, of another conversation) is left as it was.
C5_ReadReceipts ==
  [][\A p \in Procs :
       /\ (pc' = pc /\ resp'.op = "getMessages") => messages' = messages
       /\ (pc[p].op = "getMessages" /\ pc'[p] # pc[p] /\ pc[p].at # "gm_update") =>
            /\ messages' = messages
            /\ (pc'[p].at = "idle" /\ resp'.ok) =>
                 \A i \in Range(resp'.res.messages) :
                   messages[i].receiverId = pc[p].a => messages[i].isRead
       /\ (pc[p].at = "gm_update" /\ pc'[p] # pc[p]) =>
            /\ resp'.ok /\ resp'.op = "getMessages"
            /\ DOMAIN messages' = DOMAIN messages
            /\ \A i \in DOMAIN messages :
                 IF /\ i \in Range(resp'.res.messages)
                    /\ messages[i].receiverId = pc[p].a
                    /\ ~messages[i].isRead
                   THEN /\ messages'[i].isRead
                        /\ messages'[i].readAt >= pc[p].loc.t0
                        /\ messages'[i] = [messages[i] EXCEPT
                             !.isRead = TRUE, !.readAt = messages'[i].readAt]
                   ELSE messages'[i] = messages[i]
    ]_vars

\* C5 witness: getMessages returned a page holding a message received by the
\* caller that is now read, while an unread message received by the caller
\* lies outside the page.
C5_Witness ==
  /\ resp.op = "getMessages" /\ resp.ok
  /\ \E i \in Range(resp.res.messages) :
       messages[i].receiverId = resp.a /\ messages[i].isRead /\ messages[i].readAt > 0
  /\ \E j \in DOMAIN messages :
       /\ j \notin Range(resp.res.messages)
       /\ messages[j].receiverId = resp.a /\ ~messages[j].isRead

\* C16: for a getMessages(caller, other, cursor, limit, direction) call let
\* S be the messages of the pair strictly older (before) or strictly newer
\* (after) than the createdAt of the cursor message, or all of them without
\* cursor, when the page is read. The page holds min(limit, |S|) messages of
\* S, oldest first, the newest of S for before and the oldest of S for
\* after; hasMore is true iff |S| > limit; the response carries that page
\* and hasMore, and nextCursor is the id of the oldest message of the page
\* for before, of the newest for after, null (0) for an empty page.
C16_PageShape ==
  [][\A p \in Procs :
       LET f == pc[p]
           at(i) == messages[i].createdAt
           S == {i \in Conversation(f.a, f.b) :
                   \/ f.loc.cursor = 0
                   \/ f.loc.dir = "before" /\ at(i) < at(f.loc.cursor)
                   \/ f.loc.dir = "after" /\ at(i) > at(f.loc.cursor)}
           page == IF pc'[p].at = "gm_update" THEN pc'[p].loc.page ELSE resp'.res.messages
           hasMore == IF pc'[p].at = "gm_update" THEN pc'[p].loc.hasMore
                                                 ELSE resp'.res.hasMore
       IN /\ (f.at = "gm_find" /\ pc'[p] # f) =>
               /\ Len(page) = Min(f.loc.limit, Cardinality(S))
               /\ Range(page) \subseteq S
               /\ Cardinality(Range(page)) = Len(page)
               /\ \A k, l \in DOMAIN page : k < l => at(page[k]) <= at(page[l])
               /\ \A i \in Range(page), j \in S \ Range(page) :
                    IF f.loc.dir = "before" THEN at(j) <= at(i) ELSE at(j) >= at(i)
               /\ hasMore <=> Cardinality(S) > f.loc.limit
          /\ (f.at = "gm_update" /\ pc'[p] # f) =>
               /\ resp'.res.messages = f.loc.page
               /\ resp'.res.hasMore = f.loc.hasMore
          /\ (f.at \in {"gm_find", "gm_update"} /\ pc'[p].at = "idle") =>
               LET res == resp'.res IN
               /\ resp'.ok
               /\ IF res.messages = <<>>
                    THEN res.nextCursor = 0
                    ELSE /\ res.nextCursor \in Range(res.messages)
                         /\ res.nextCursor =
                              IF f.loc.dir = "before" THEN res.messages[1]
                                                      ELSE res.messages[Len(res.messages)]
                         /\ \A i \in Range(res.messages) :
                              IF f.loc.dir = "before" THEN at(res.nextCursor) <= at(i)
                                                      ELSE at(res.nextCursor) >= at(i)
    ]_vars

\* C16 witness: a conversation of two messages was read with limit 1: the
\* page holds the newer message alone, hasMore is true and nextCursor is the
\* id of that message.
C16_Witness ==
  /\ resp.op = "getMessages" /\ resp.ok
  /\ Cardinality(Conversation(resp.a, resp.b)) = 2
  /\ Len(resp.res.messages) = 1
  /\ resp.res.hasMore
  /\ resp.res.nextCursor = resp.res.messages[1]
  /\ \A i \in Conversation(resp.a, resp.b) :
       messages[i].createdAt <= messages[resp.res.nextCursor].createdAt
  /\ \E i \in Conversation(resp.a, resp.b) :
       messages[i].createdAt < messages[resp.res.nextCursor].createdAt

(***************************************************************************)
(* Properties of the send pipeline                                         *)
(***************************************************************************)

\* The tasks of message i waiting on origin queue q.
Tasks(q, i) == {k \in DOMAIN queues[q] : queues[q][k].content.messageId = i}

\* The new_message and message_sent events of message i.
SendEvents(i) ==
  {[event |-> "new_message", to |-> messages[i].receiverId, messageId |-> i],
   [event |-> "message_sent", to |-> messages[i].senderId, messageId |-> i]}

\* C13: when a send that stored a Message has completed, over POST
\* /messages/send or over the gateway, exactly one notification task of
\* that message has been published, and exactly one file-upload task if the
\* message has an attachment, none otherwise.
C13_EverySendDispatches ==
  (resp.op \in {"sendMessage", "send_message"} /\ resp.ok) =>
    /\ Cardinality(Tasks(NotificationQueue, resp.rid)) = 1
    /\ Cardinality(Tasks(FileQueue, resp.rid)) =
         IF messages[resp.rid].hasFile THEN 1 ELSE 0

\* C14: in the gateway handler, once the Message is stored, the publish
\* step - whether publishFileUpload / publishNotification return true,
\* return false or throw - leaves the stored messages as they are, emits no
\* error and hands over to the emit step, which emits new_message to the
\* receiver and message_sent to the sender and completes the send.
C14_PublishFailureContained ==
  [][\A p \in Procs :
       /\ (pc[p].at = "gw_publish" /\ pc'[p] # pc[p]) =>
            /\ messages' = messages
            /\ emitted' = emitted
            /\ pc'[p] = [pc[p] EXCEPT !.at = "gw_emit"]
       /\ (pc[p].at = "gw_emit" /\ pc'[p] # pc[p]) =>
            /\ messages' = messages
            /\ emitted' = emitted \cup SendEvents(pc[p].rid)
            /\ resp'.ok /\ resp'.rid = pc[p].rid
    ]_vars

\* C14 witness: a send_message with an attachment has completed with both
\* events emitted although none of its tasks was published (the first
\* publish threw), and the message is stored.
C14_Witness ==
  /\ resp.op = "send_message" /\ resp.ok
  /\ messages[resp.rid].hasFile
  /\ Tasks(FileQueue, resp.rid) = {} /\ Tasks(NotificationQueue, resp.rid) = {}
  /\ SendEvents(resp.rid) \subseteq emitted

\* C17: in the gateway handler the tasks of a message are published only
\* after new_message and message_sent have been emitted for it: whenever a
\* task of a message is on a queue, both events of the message have been
\* emitted.
C17_EmitBeforePublish ==
  \A q \in Queues, i \in DOMAIN messages :
    Tasks(q, i) # {} => SendEvents(i) \subseteq emitted

(***************************************************************************)
(* Properties of the task consumers                                        *)
(***************************************************************************)

\* The payload published for message i on queue q.
Payload(q, i) ==
  LET f == [rid |-> i, a |-> messages[i].senderId, b |-> messages[i].receiverId,
            loc |-> [file |-> messages[i].hasFile]] IN
  IF q = FileQueue THEN FileUploadMessage(f) ELSE NotificationMessage(f)

\* The copies of the task of message i on the .dlq queue paired with q.
OnDlq(q, i) == {k \in DOMAIN dlqs[q] : dlqs[q][k].content.messageId = i}

\* The task of message i waits on q, is being processed or awaits a retry.
Live(q, i) ==
  \/ \E k \in DOMAIN queues[q] : queues[q][k].content.messageId = i
  \/ consumer[q].at # "idle" /\ consumer[q].msg.content.messageId = i
  \/ \E t \in timers : t.queue = q /\ t.content.messageId = i

\* C2 as stated: once the processing of a task has failed 3 times the task
\* has been delivered 3 times, never more, and one copy of it, with the
\* payload published, is on the paired .dlq queue.
C2_ThreeFailuresThenDlq ==
  \A q \in Queues, i \in MsgIds :
    tally[q][i].failed >= 3 =>
      /\ tally[q][i].delivered <= 3
      /\ Cardinality(OnDlq(q, i)) = 1
      /\ \A k \in OnDlq(q, i) : dlqs[q][k].content = Payload(q, i)

\* C2 amended: a task is delivered at most maxRetries + 1 = 4 times (the
\* first delivery and 3 retries); once its processing has failed 4 times it
\* is never delivered again and exactly one copy of it, with the payload
\* published, is on the paired .dlq queue; a task that failed fewer times
\* is not on the .dlq queue.
C2_FourFailuresThenDlq ==
  \A q \in Queues, i \in MsgIds :
    /\ tally[q][i].delivered <= maxRetries + 1
    /\ tally[q][i].failed <= tally[q][i].delivered
    /\ IF tally[q][i].failed = maxRetries + 1
         THEN /\ ~Live(q, i)
              /\ Cardinality(OnDlq(q, i)) = 1
              /\ \A k \in OnDlq(q, i) : dlqs[q][k].content = Payload(q, i)
         ELSE OnDlq(q, i) = {}

\* C2 witness: a file-upload task is on its .dlq queue after 4 failed
\* attempts while a notification task succeeded at its 4th attempt, after
\* 3 failures.
C2_Witness ==
  /\ \E i \in MsgIds : tally[FileQueue][i].failed = 4 /\ OnDlq(FileQueue, i) # {}
  /\ \E i \in MsgIds :
       /\ tally[NotificationQueue][i].failed = 3
       /\ tally[NotificationQueue][i].delivered = 4
       /\ ~Live(NotificationQueue, i)
       /\ OnDlq(NotificationQueue, i) = {}

\* C15: when the processing of a delivery with x-retry-count r (absent = 0)
\* fails, the delivery is acknowledged and, if r < 3, a republish of the same
\* payload with x-retry-count = r + 1 is scheduled after 2^r seconds and
\* nothing goes to the .dlq queue, while if r >= 3 the payload goes unchanged
\* to the paired .dlq queue and no republish is scheduled; a republish, when
\* its delay has passed, puts the payload on the origin queue of the
\* delivery; the x-retry-count of a message on an origin queue is in 0..3.
C15_RetryOrDeadLetter ==
  /\ [](\A q \in Queues : \A k \in DOMAIN queues[q] :
          RetryCount(queues[q][k]) \in 0..3)
  /\ [][/\ \A q \in Queues :
            LET msg == consumer[q].msg
                i == msg.content.messageId
                r == IF msg.headers = <<>> THEN 0 ELSE msg.headers[1]
            IN (consumer[q].at # "idle" /\ tally'[q][i].failed = tally[q][i].failed + 1) =>
                 /\ consumer'[q].at = "idle"
                 /\ queues' = queues
                 /\ IF r < 3
                      THEN /\ timers' = timers \cup
                                {[queue |-> q, content |-> msg.content,
                                  headers |-> <<r + 1>>, delay |-> 1000 * (2 ^ r)]}
                           /\ timers' # timers
                           /\ dlqs' = dlqs
                      ELSE /\ timers' = timers
                           /\ dlqs' = [dlqs EXCEPT ![q] =
                                Append(@, [content |-> msg.content, headers |-> <<>>])]
         /\ \A t \in timers \ timers' :
              /\ queues' = [queues EXCEPT ![t.queue] =
                   Append(@, [content |-> t.content, headers |-> t.headers])]
              /\ dlqs' = dlqs
       ]_vars

\* C15 witness: the third retry of a file-upload task (x-retry-count 3) is
\* scheduled after 4 seconds while the notification task of the same message,
\* having failed with x-retry-count 3, is on its .dlq queue.
C15_Witness ==
  /\ \E t \in timers :
       t.queue = FileQueue /\ t.headers = <<3>> /\ t.delay = 4000
  /\ dlqs[NotificationQueue] # <<>>
  /\ tally[NotificationQueue][1].failed = 4

\* C18: a task whose processing has failed and that has reached no terminal
\* outcome (every delivery of it failed, it is not on the .dlq queue) is
\* never lost, a process exit during the backoff delay included: a copy of
\* it waits on its queue, is being processed or awaits its republish.
C18_NoTaskLost ==
  \A q \in Queues, i \in MsgIds :
    (/\ tally[q][i].failed >= 1
     /\ tally[q][i].failed = tally[q][i].delivered
     /\ OnDlq(q, i) = {}) => Live(q, i)

\* The task of message i on q has reached a terminal outcome: no copy of it
\* is left to process and it was processed successfully or is on the .dlq
\* queue.
Settled(q, i) ==
  /\ ~Live(q, i)
  /\ \/ OnDlq(q, i) # {}
     \/ tally[q][i].failed < tally[q][i].delivered

\* C19: as long as the process stays up, the timers fire and the broker
\* delivers, there comes a time from which every task that was placed on
\* chat.file.upload or chat.notification.send has reached a terminal outcome
\* - processed successfully, or on the paired .dlq queue - and keeps it,
\* whatever became of the tasks queued before it; no task is given more than
\* maxRetries + 1 processing attempts.
C19_EveryTaskSettles ==
  /\ <>[](\A q \in Queues, i \in MsgIds :
            (Live(q, i) \/ tally[q][i].delivered > 0) => Settled(q, i))
  /\ [](\A q \in Queues, i \in MsgIds : tally[q][i].delivered <= maxRetries + 1)

\* C19 witness: the first notification task failed at every attempt and is
\* on the .dlq queue; the second one, queued behind it, was processed
\* successfully after a failed attempt.
C19_Witness ==
  /\ OnDlq(NotificationQueue, 1) # {} /\ ~Live(NotificationQueue, 1)
  /\ tally[NotificationQueue][1].failed = maxRetries + 1
  /\ Settled(NotificationQueue, 2) /\ OnDlq(NotificationQueue, 2) = {}
  /\ tally[NotificationQueue][2].failed = 1

\* C20: processing a file-upload task of a message that is already marked
\* uploaded changes no message and succeeds at once (the delivery is
\* acknowledged, nothing is retried or dead-lettered); a message marked
\* uploaded is never changed by the consumer and the only change the
\* consumer makes to a message is to set its fileUrl and isFileUploaded, so
\* processing a task twice leaves the message as processing it once does;
\* processing a task whose message id is not stored fails (retry path) and
\* changes no message.
C20_FileAttachIdempotent ==
  [][LET c == consumer[FileQueue]
         id == c.msg.content.messageId
         failed == tally'[FileQueue][id].failed = tally[FileQueue][id].failed + 1
     IN /\ (c.at = "process" /\ consumer' # consumer /\ id \in DOMAIN messages
             /\ messages[id].isFileUploaded) =>
               /\ messages' = messages
               /\ consumer'[FileQueue].at = "idle"
               /\ ~failed
               /\ timers' = timers /\ dlqs' = dlqs /\ queues' = queues
        /\ (c.at = "process" /\ consumer' # consumer /\ id \notin DOMAIN messages) =>
               /\ messages' = messages
               /\ failed
               /\ timers' # timers \/ dlqs' # dlqs
        /\ \A i \in DOMAIN messages :
               /\ i \in DOMAIN messages'
               /\ messages[i].isFileUploaded => messages'[i] = messages[i]
               /\ messages'[i] # messages[i] =>
                    /\ c.at = "save" /\ id = i /\ ~failed
                    /\ messages'[i] = [messages[i] EXCEPT !.fileUrl = "url",
                                                          !.isFileUploaded = TRUE]
    ]_vars

\* C20 witness: the task of message 1 and its duplicate were both processed
\* with success and the message is marked uploaded; the task naming the
\* missing message has failed.
C20_Witness ==
  /\ messages[1].isFileUploaded /\ messages[1].fileUrl = "url"
  /\ tally[FileQueue][1].delivered = 2 /\ tally[FileQueue][1].failed = 0
  /\ ~Live(FileQueue, 1)
  /\ tally[FileQueue][2].failed >= 1
  /\ Len(messages) = 1

\* The file-upload task of message i was processed with success.
Attached(i) ==
  /\ ~Live(FileQueue, i)
  /\ tally[FileQueue][i].failed < tally[FileQueue][i].delivered

\* C21: once the file-upload task of a message was processed with success
\* and a getMessages call of its receiver returned it, in whatever order
\* the consumer's findById / save() and the call's find / updateMany ran,
\* the message has isFileUploaded = TRUE with its fileUrl and isRead = TRUE
\* with its readAt.
C21_AttachAndReadBothKept ==
  \A i \in DOMAIN messages :
    (/\ Attached(i)
     /\ resp.op = "getMessages" /\ resp.ok
     /\ i \in Range(resp.res.messages)
     /\ messages[i].receiverId = resp.a) =>
       /\ messages[i].isFileUploaded /\ messages[i].fileUrl = "url"
       /\ messages[i].isRead /\ messages[i].readAt >= 1

\* C21 witness: the receiver's getMessages returned the message and the
\* file-upload task succeeded at a retry; the message is uploaded and read.
C21_Witness ==
  /\ Attached(1) /\ tally[FileQueue][1].failed >= 1
  /\ resp.op = "getMessages" /\ resp.ok /\ resp.a = U2
  /\ resp.res.messages = <<1>>
  /\ messages[1].isFileUploaded /\ messages[1].isRead

\* C22: a stored Message is never deleted and keeps its senderId,
\* receiverId, content, hasFile, fileKey and createdAt; its isFileUploaded
\* and isRead never go back from TRUE to FALSE; its fileUrl, once set, is
\* never changed; isFileUploaded is TRUE only on messages with hasFile =
\* TRUE.
C22_MessageImmutable ==
  /\ [](\A i \in DOMAIN messages : messages[i].isFileUploaded => messages[i].hasFile)
  /\ [][\A i \in DOMAIN messages :
          /\ i \in DOMAIN messages'
          /\ \A field \in {"senderId", "receiverId", "content", "hasFile", "fileKey",
                            "createdAt"} : messages'[i][field] = messages[i][field]
          /\ messages[i].isFileUploaded => messages'[i].isFileUploaded
          /\ messages[i].isRead => messages'[i].isRead
          /\ messages[i].fileUrl # Nil => messages'[i].fileUrl = messages[i].fileUrl
       ]_vars

\* C22 witness: a message with attachment is stored, uploaded by the
\* consumer and read by its receiver, its notification task still waiting.
C22_Witness ==
  /\ Len(messages) >= 1
  /\ messages[1].hasFile /\ messages[1].isFileUploaded /\ messages[1].fileUrl = "url"
  /\ messages[1].isRead
  /\ Live(NotificationQueue, 1)
  /\ messages[1].senderId = U1 /\ messages[1].createdAt = 1

(***************************************************************************)
(* Properties of the eligibility engine and of the TrailConnection store   *)
(***************************************************************************)

\* The ids in the order of their strings: "03" < "0a" < "12".
IdOrder == <<U3, U1, U2>>

C7_EligibilitySymmetric ==
  [][(resp'.op = "checkConnectionEligibility" /\ resp'.a # resp'.b) =>
       LET other == CheckConnectionEligibility(resp'.b, resp'.a) IN
       /\ resp'.eligibility.eligible = other.eligible
       /\ resp'.eligibility.reflectionCount = other.reflectionCount
       /\ resp'.eligibility.mutualAlbums = other.mutualAlbums
    ]_vars

\* C7 witness: a check of two distinct users returned eligible with three
\* mutual albums.
C7_Witness ==
  /\ resp.op = "checkConnectionEligibility" /\ resp.a # resp.b
  /\ resp.eligibility.eligible
  /\ Cardinality(resp.eligibility.mutualAlbums) = 3

\* The rule of eligibility of a and b, e being the result returned, when
\* the albums of albums and the media of media are the ones that count:
\* eligible iff a # b, the albums favorited by both hold one owned by a and
\* one owned by b, and each reflected on a media of the other; reflectionCount
\* is then the number of reflections of both directions; with the albums in
\* place and a direction without reflection the reason names the
\* bidirectional reflections.
EligibilityRule(e, a, b, albums, media) ==
  LET both == {x \in albums : <<a, x>> \in favorites /\ <<b, x>> \in favorites}
      on(u, v) == {r \in mediaReflections :
                     r[1] = u /\ r[2] \in media /\ AlbumUserId[MediaAlbumId[r[2]]] = v}
      favored == /\ a # b
                 /\ \E x \in both : AlbumUserId[x] = a
                 /\ \E x \in both : AlbumUserId[x] = b
      reflected == on(a, b) # {} /\ on(b, a) # {}
  IN /\ e.eligible <=> (favored /\ reflected)
     /\ e.eligible => e.reflectionCount = Cardinality(on(a, b)) + Cardinality(on(b, a))
     /\ (favored /\ ~reflected) => e.reasons = <<"No bidirectional reflections found">>

C23_DeletedAlbumsDoNotCount ==
  [][resp'.op = "checkConnectionEligibility" =>
       LET counted(u, v) ==
             {r \in mediaReflections :
                /\ r[1] = u
                /\ r[2] \notin deletedMedia
                /\ MediaAlbumId[r[2]] \notin deletedAlbums
                /\ AlbumUserId[MediaAlbumId[r[2]]] = v}
       IN (counted(resp'.a, resp'.b) = {} \/ counted(resp'.b, resp'.a) = {})
            => ~resp'.eligibility.eligible
    ]_vars

\* The TrailConnection documents of the unordered pair {a, b}.
PairConnections(a, b) ==
  {i \in DOMAIN connections : {connections[i].userA, connections[i].userB} = {a, b}}

\* C24: createConnection(A, B) goes on to the store only when
\* checkConnectionEligibility(A, B), evaluated by the call, is eligible;
\* otherwise it fails and changes no document. Then: with no document of the
\* pair stored one is created with isActive = TRUE; with an inactive one that
\* document is set to isActive = TRUE and no document is added; with an
\* active one nothing is changed. A document is added, or goes from inactive
\* to active, only in such a call.
C24_CreateOnlyWhenEligible ==
  [][/\ \A p \in Procs :
          LET f == pc[p]
              docs == PairConnections(f.a, f.b) IN
          /\ (f.at = "idle" /\ pc'[p].at = "cc_find") =>
               /\ CheckConnectionEligibility(pc'[p].a, pc'[p].b).eligible
               /\ pc'[p].eligibility = CheckConnectionEligibility(pc'[p].a, pc'[p].b)
               /\ connections' = connections
          /\ (f.at = "cc_find" /\ pc'[p] # f) =>
               /\ connections' = connections
               /\ docs = {} => pc'[p].at = "cc_create"
               /\ \A i \in docs :
                    IF connections[i].isActive
                      THEN pc'[p].at = "idle" /\ resp'.ok
                             /\ resp'.message = "Already connected"
                      ELSE pc'[p].at = "cc_reactivate" /\ pc'[p].rid = i
          /\ (f.at = "cc_reactivate" /\ pc'[p] # f) =>
               /\ f.rid \in docs /\ resp'.ok
               /\ connections' = [connections EXCEPT ![f.rid] =
                      [@ EXCEPT !.isActive = TRUE,
                                !.mutualAlbumIds = f.eligibility.mutualAlbums,
                                !.reflectionCount = f.eligibility.reflectionCount]]
          /\ (f.at = "cc_create" /\ pc'[p] # f) =>
               IF docs = {}
                 THEN /\ resp'.ok
                      /\ Len(connections') = Len(connections) + 1
                      /\ SubSeq(connections', 1, Len(connections)) = connections
                      /\ connections'[Len(connections')].isActive
                      /\ {connections'[Len(connections')].userA,
                          connections'[Len(connections')].userB} = {f.a, f.b}
                 ELSE ~resp'.ok /\ connections' = connections
     /\ (pc' = pc /\ resp' # resp /\ resp'.op = "createConnection") =>
          /\ ~resp'.ok /\ connections' = connections
          /\ resp'.a = resp'.b \/ ~CheckConnectionEligibility(resp'.a, resp'.b).eligible
     /\ (\/ Len(connections') > Len(connections)
         \/ \E i \in DOMAIN connections :
              i \in DOMAIN connections' /\ ~connections[i].isActive /\ connections'[i].isActive) =>
          \E p \in Procs :
            /\ pc[p].op = "createConnection" /\ pc[p].eligibility.eligible
            /\ pc'[p].at = "idle"
    ]_vars

\* C24 witness: a createConnection of U2 and U1 has reactivated the document
\* of the pair, which had been removed, without adding a document.
C24_Witness ==
  /\ resp.op = "createConnection" /\ resp.ok
  /\ resp.message = "Connection reactivated"
  /\ resp.a = U2 /\ resp.b = U1
  /\ PairConnections(U1, U2) = {resp.rid}
  /\ connections[resp.rid].isActive

\* C25: updateConnectionEligibility(A, B) on a pair with an active
\* TrailConnection evaluates checkConnectionEligibility(A, B) and leaves the
\* document active iff that evaluation is eligible, setting isActive = FALSE
\* otherwise; on a pair with no active connection it changes nothing; and no
\* step of it, of removeConnection or of any other handler removes a
\* TrailConnection document or changes the pair of one.
C25_DeactivateNeverDelete ==
  [][/\ \A p \in Procs :
          LET f == pc[p] IN
          /\ (f.at = "idle" /\ pc'[p].at = "ue_check") =>
               /\ pc'[p].rid \in PairConnections(pc'[p].a, pc'[p].b)
               /\ connections[pc'[p].rid].isActive
               /\ connections' = connections
          /\ (f.at = "ue_check" /\ pc'[p] # f) =>
               /\ pc'[p].at = "ue_update"
               /\ pc'[p].eligibility = CheckConnectionEligibility(f.a, f.b)
               /\ connections' = connections
          /\ (f.at = "ue_update" /\ pc'[p] # f) =>
               /\ connections' = [connections EXCEPT ![f.rid] =
                      [@ EXCEPT !.mutualAlbumIds = f.eligibility.mutualAlbums,
                                !.reflectionCount = f.eligibility.reflectionCount]]
               /\ IF f.eligibility.eligible
                    THEN pc'[p].at = "idle" /\ resp'.message = "Connection updated"
                    ELSE pc'[p].at = "ue_deactivate" /\ pc'[p].rid = f.rid
          /\ (f.at = "ue_deactivate" /\ pc'[p] # f) =>
               /\ connections' = [connections EXCEPT ![f.rid].isActive = FALSE]
               /\ pc'[p].at = "idle"
     /\ (pc' = pc /\ resp' # resp /\ resp'.op = "updateConnectionEligibility") =>
          /\ connections' = connections
          /\ \A i \in PairConnections(resp'.a, resp'.b) : ~connections[i].isActive
     /\ Len(connections') >= Len(connections)
     /\ \A i \in DOMAIN connections :
          /\ connections'[i].userA = connections[i].userA
          /\ connections'[i].userB = connections[i].userB
    ]_vars

\* C25 witness: updateConnectionEligibility has deactivated the document of
\* a pair that is no longer eligible, and the document is still stored.
C25_Witness ==
  /\ resp.op = "updateConnectionEligibility"
  /\ resp.message = "Connection deactivated (no longer eligible)"
  /\ resp.rid \in PairConnections(resp.a, resp.b)
  /\ ~connections[resp.rid].isActive
  /\ ~resp.eligibility.eligible

(***************************************************************************)
(* Properties of the realtime gateway                                      *)
(***************************************************************************)

\* Socket s goes from open to closed in the step.
Disconnects(s) == sockets[s].st = "open" /\ sockets'[s].st = "closed"

\* C26: the registry entry of a user is removed only by the disconnect of
\* the socket the entry names; the disconnect of another socket of the user
\* (an older one, replaced in the registry) leaves the registry as it is.
C26_OnlyCurrentSessionUnregisters ==
  [][/\ \A u \in Users :
          (IsUserOnline(u) /\ connectedUsers'[u] = NoSocket) =>
            Disconnects(connectedUsers[u])
     /\ \A s \in Sockets :
          (/\ Disconnects(s)
           /\ sockets[s].userId # NoUser
           /\ connectedUsers[sockets[s].userId] # s) =>
            connectedUsers' = connectedUsers
    ]_vars

\* C26 witness: the first socket of U1 was replaced in the registry by the
\* second; the first has disconnected and the entry still names the second.
C26_Witness ==
  /\ sockets["s1"].userId = U1 /\ sockets["s1"].st = "closed"
  /\ sockets["s1"].currentSocketId = "s2"
  /\ sockets["s2"].userId = U1 /\ sockets["s2"].st = "open"
  /\ connectedUsers[U1] = "s2"

\* The open sockets on which the user is userId.
LiveSessions(userId) ==
  {s \in Sockets : sockets[s].st = "open" /\ sockets[s].userId = userId}

\* C27: isUserOnline(u) is true whenever u has at least one live
\* authenticated session.
C27_OnlineWhileAnySessionLive ==
  \A u \in Users : LiveSessions(u) # {} => IsUserOnline(u)

\* Socket s connected with no token, with a token that does not verify or
\* with a payload without a user id.
Rejected(s) ==
  /\ sockets[s].st # "new"
  /\ \/ sockets[s].token = "none"
     \/ VerifyThrows(sockets[s].token)
     \/ Sub(sockets[s].token) = NoUser

\* userId is the user of a socket that was accepted.
Authenticated(userId) ==
  \E s \in Sockets : ~Rejected(s) /\ sockets[s].userId = userId

\* C28: a rejected socket was sent an error and nothing else, is closed, has
\* no user, is in no room and in no registry entry; and every stored
\* Message, every send in flight, every published task and every event
\* emitted comes from the user of an accepted socket.
C28_RejectedSessionsInert ==
  /\ \A s \in Sockets :
       Rejected(s) =>
         /\ sockets[s].st = "closed" /\ sockets[s].got = {"error"}
         /\ sockets[s].userId = NoUser /\ sockets[s].rooms = {}
         /\ sockets[s].at = "idle"
         /\ \A u \in Users : connectedUsers[u] # s
  /\ \A i \in DOMAIN messages : Authenticated(messages[i].senderId)
  /\ \A p \in Procs : pc[p].at # "idle" => Authenticated(pc[p].a)
  /\ \A q \in Queues : \A k \in DOMAIN queues[q] :
       Authenticated(queues[q][k].content.senderId)
  /\ emitted # {} => \E u \in Users : Authenticated(u)

\* C28 witness: s1 came with a payload without user id and was rejected
\* with an error; the only Message stored is one of U1, who connected on
\* s2, and a typing event was relayed to U2.
C28_Witness ==
  /\ sockets["s1"].token = "nosub" /\ Rejected("s1")
  /\ sockets["s1"].got = {"error"}
  /\ sockets["s2"].userId = U1
  /\ Len(messages) = 1 /\ messages[1].senderId = U1
  /\ TypingEvent(U2) \in emitted

\* The consumer of q holds an unacknowledged delivery.
Busy(q) == consumer[q].at # "idle"

\* All that belongs to queue q: its ready messages, its .dlq queue, its
\* consumer, the history of its tasks and its pending republishes.
QueueState(q) ==
  <<queues[q], dlqs[q], consumer[q], tally[q], {t \in timers : t.queue = q}>>

\* C29: a task is delivered to the consumer of a queue only while that
\* consumer holds no unacknowledged delivery, so two tasks of a queue are
\* never processed at once; a step on one queue changes nothing of the other
\* queue; and whatever the other queue is doing - processing, failing,
\* waiting for a republish, dead-lettering - a ready task is delivered to
\* an idle consumer and a delivery being processed goes on.
C29_OneAtATimeIndependentQueues ==
  /\ [][\A q \in Queues :
          /\ (\E i \in MsgIds : tally'[q][i].delivered > tally[q][i].delivered) =>
               /\ ~Busy(q)
               /\ consumer'[q].at = "process" /\ consumer'[q].msg = Head(queues[q])
          /\ QueueState(q)' # QueueState(q) =>
               \A r \in Queues \ {q} : QueueState(r)' = QueueState(r)
       ]_vars
  /\ [](\A q \in Queues : (queues[q] # <<>> /\ ~Busy(q)) => ENABLED Consume(q))
  /\ [](Busy(FileQueue) => ENABLED (FileUploadFind({FALSE}) \/ FileUploadSave({FALSE})))
  /\ [](Busy(NotificationQueue) => ENABLED NotificationProcess({"sent"}))

\* C29 witness: the first file-upload task failed and waits for its
\* republish, the second is being processed; meanwhile both notification
\* tasks were processed successfully at the first attempt.
C29_Witness ==
  /\ \E t \in timers : t.queue = FileQueue /\ t.content.messageId = 1
  /\ Busy(FileQueue) /\ consumer[FileQueue].msg.content.messageId = 2
  /\ \A i \in {1, 2} :
       /\ Settled(NotificationQueue, i)
       /\ tally[NotificationQueue][i].delivered = 1
       /\ tally[NotificationQueue][i].failed = 0

\* C30: an unordered pair of users never has more than one accepted
\* ConnectionRequest, and never has a pending one while it has an accepted
\* one.
C30_AcceptedExcludesOthers ==
  \A a \in Users, b \in Users :
    /\ Cardinality(PairRecords(requests, a, b, {"accepted"})) <= 1
    /\ PairRecords(requests, a, b, {"accepted"}) # {} =>
         PairRecords(requests, a, b, {"pending"}) = {}

====
